---- MODULE Spec2Model ----
(***************************************************************************)
(* Model of the Wordle solver engine (solver/oracle.rs, solver/load.rs,    *)
(* solver/engine.rs) and of the undo-capable session wrapped around it     *)
(* (session.rs).  Words are 5-byte sequences, pattern codes are u16        *)
(* values, the pattern matrix is a row-major table of u8 values.           *)
(***************************************************************************)
EXTENDS Integers, Sequences, FiniteSets, TLC

(***************************************************************************)
(* Bounds of the model.                                                    *)
(***************************************************************************)
\* Successful turns explored per session (the engine itself has no cap).
MaxTurns == 7

\* Successful turns explored per session over the larger vocabularies.
MaxRichTurns == 3

\* Longest text handed to parse_results_code.
MaxCodeLen == 6

\* Longest text handed to parse_word5.
MaxWordTextLen == 7

\* Most lines of a word-list file handed to load_word_list on its own.
MaxFileLines == 3

(***************************************************************************)
(* Bytes.  Lines of a word-list file and Words are sequences of bytes.     *)
(***************************************************************************)
Chr ==
  [tab |-> 9, sp |-> 32, bang |-> 33, at |-> 64, A |-> 65, B |-> 66, E |-> 69,
   G |-> 71, L |-> 76, P |-> 80, Y |-> 89, Z |-> 90, lbracket |-> 91,
   backtick |-> 96,
   a |-> 97, b |-> 98, d |-> 100, e |-> 101, g |-> 103, i |-> 105,
   l |-> 108, p |-> 112, r |-> 114, s |-> 115, t |-> 116, z |-> 122,
   lbrace |-> 123]

\* u8 / u16 truncation (`as u8`, PatternCode = u16).
U8(x) == x % 256

U16(x) == x % 65536

\* ASCII members of Unicode White_Space, removed by str::trim.
IsWhitespace(b) == b \in {9, 10, 11, 12, 13, 32}

IsLower(b) == b >= 97 /\ b <= 122

IsUpper(b) == b >= 65 /\ b <= 90

None == [some |-> FALSE]

Some(v) == [some |-> TRUE, val |-> v]

(***************************************************************************)
(* oracle.rs                                                               *)
(***************************************************************************)
PATTERN_BUCKETS == 3 * 3 * 3 * 3 * 3

ALL_GREEN_CODE == 242

\* The condition asserted by li: b.is_ascii_lowercase().
li_assertion(b) == IsLower(b)

\* li: index of a lowercase letter in the 26-entry count array.
li(b) == b - 97

RECURSIVE TrimStart(_)
TrimStart(s) ==
  IF s # <<>> /\ IsWhitespace(Head(s)) THEN TrimStart(Tail(s)) ELSE s

RECURSIVE TrimEnd(_)
TrimEnd(s) ==
  IF s # <<>> /\ IsWhitespace(s[Len(s)])
    THEN TrimEnd(SubSeq(s, 1, Len(s) - 1))
    ELSE s

Trim(s) == TrimEnd(TrimStart(s))

\* Mutant: every byte from A to z counts as a letter.
parse_word5_LooseRange(line) ==
  LET s == Trim(line)
      lower(b) == IF b > 90 THEN b ELSE b + 32
  IN  IF Len(s) # 5 THEN None
      ELSE IF \E k \in 1..5 : ~(s[k] >= 65 /\ s[k] <= 122) THEN None
      ELSE Some([k \in 1..5 |-> lower(s[k])])

\* parse_word5: trimmed line of exactly 5 ASCII letters, lowercased.
parse_word5(line) ==
  LET s == Trim(line)
      lower(b) == IF IsLower(b) THEN b ELSE b + 32
  IN  IF Len(s) # 5 THEN None
      ELSE IF \E k \in 1..5 : ~(IsLower(s[k]) \/ IsUpper(s[k])) THEN None
      ELSE Some([k \in 1..5 |-> lower(s[k])])

\* Display for Word (types.rs): the 5 bytes read as UTF-8 text; the unwrap
\* succeeds on ASCII bytes, which is all a parsed Word holds.
word_fmt(w) ==
  IF \A k \in 1..5 : w[k] < 128 THEN Some([k \in 1..5 |-> w[k]]) ELSE None

\* counts[li(c)] += 1 for every byte of the target.
RECURSIVE CountLetters(_, _, _)
CountLetters(t, k, counts) ==
  IF k > 5 THEN counts
  ELSE CountLetters(t, k + 1,
         [counts EXCEPT ![li(t[k])] = U8(counts[li(t[k])] + 1)])

\* Pass 1: greens.  st = [counts, state].
RECURSIVE PassGreens(_, _, _, _)
PassGreens(g, t, k, st) ==
  IF k > 5 THEN st
  ELSE IF g[k] = t[k]
    THEN PassGreens(g, t, k + 1,
           [counts |-> [st.counts EXCEPT ![li(g[k])] = U8(st.counts[li(g[k])] + 255)],
            state  |-> [st.state EXCEPT ![k] = 2]])
    ELSE PassGreens(g, t, k + 1, st)

\* Mutant: a yellow is marked and counted off without looking at the count.
RECURSIVE PassYellows_NoCountCheck(_, _, _)
PassYellows_NoCountCheck(g, k, st) ==
  IF k > 5 THEN st
  ELSE IF st.state[k] = 0
    THEN PassYellows_NoCountCheck(g, k + 1,
           [counts |-> [st.counts EXCEPT ![li(g[k])] = U8(st.counts[li(g[k])] + 255)],
            state  |-> [st.state EXCEPT ![k] = 1]])
    ELSE PassYellows_NoCountCheck(g, k + 1, st)

\* Pass 2: yellows, left to right over the positions still 0.
RECURSIVE PassYellows(_, _, _)
PassYellows(g, k, st) ==
  IF k > 5 THEN st
  ELSE IF st.state[k] = 0 /\ st.counts[li(g[k])] > 0
    THEN PassYellows(g, k + 1,
           [counts |-> [st.counts EXCEPT ![li(g[k])] = U8(st.counts[li(g[k])] + 255)],
            state  |-> [st.state EXCEPT ![k] = 1]])
    ELSE PassYellows(g, k + 1, st)

\* Mutant: one left-to-right pass that marks a green or a yellow as it goes.
RECURSIVE PassSingle(_, _, _, _)
PassSingle(g, t, k, st) ==
  IF k > 5 THEN st
  ELSE IF g[k] = t[k] \/ st.counts[li(g[k])] > 0
    THEN PassSingle(g, t, k + 1,
           [counts |-> [st.counts EXCEPT ![li(g[k])] = U8(st.counts[li(g[k])] + 255)],
            state  |-> [st.state EXCEPT ![k] = IF g[k] = t[k] THEN 2 ELSE 1]])
    ELSE PassSingle(g, t, k + 1, st)

\* Mutant: the first position gets the highest weight.
RECURSIVE PackBase3_MostSignificantFirst(_, _, _, _)
PackBase3_MostSignificantFirst(state, k, code, pow) ==
  IF k > 5 THEN code
  ELSE PackBase3_MostSignificantFirst(state, k + 1, U16(code * 3 + state[k]), pow)

\* Pack base-3, position 1 of the sequence (index 0 in the code) first.
RECURSIVE PackBase3(_, _, _, _)
PackBase3(state, k, code, pow) ==
  IF k > 5 THEN code
  ELSE PackBase3(state, k + 1, U16(code + state[k] * pow), U16(pow * 3))

\* Mutant: greens and yellows assigned in a single pass.
OracleState_SinglePass(guess, target) ==
  PassSingle(guess, target, 1,
    [counts |-> CountLetters(target, 1, [c \in 0..25 |-> 0]),
     state  |-> [k \in 1..5 |-> 0]]).state

\* Lines 41-67: the per-position marks 0 = B, 1 = Y, 2 = G after both passes.
OracleState(guess, target) ==
  LET counts0 == CountLetters(target, 1, [c \in 0..25 |-> 0])
      st1     == PassGreens(guess, target, 1,
                   [counts |-> counts0, state |-> [k \in 1..5 |-> 0]])
  IN  PassYellows(guess, 1, st1).state

simulate_results_code(guess, target) ==
  PackBase3(OracleState(guess, target), 1, 0, 1)

simulate_results_pattern(guess, target) == simulate_results_code(guess, target)

\* The loop of parse_results_code from byte k on.
RECURSIVE ParseDigits(_, _, _, _)
ParseDigits(r, k, code, pow) ==
  IF k > Len(r) THEN Some(code)
  ELSE IF r[k] \notin {66, 89, 71} THEN None
  ELSE LET digit == IF r[k] = 66 THEN 0 ELSE IF r[k] = 89 THEN 1 ELSE 2
       IN  ParseDigits(r, k + 1, U16(code + digit * pow), U16(pow * 3))

\* Mutant: the length of the text is not checked.
parse_results_code_AnyLength(results) == ParseDigits(results, 1, 0, 1)

\* parse_results_code: 5 bytes of B / Y / G, first byte least significant.
parse_results_code(results) ==
  IF Len(results) # 5 THEN None ELSE ParseDigits(results, 1, 0, 1)

\* Mutant: the slots are filled from the last one to the first.
results_code_to_string_Reversed(code) ==
  LET digitAt(k) == (code \div (3 ^ (5 - k))) % 3
  IN  [k \in 1..5 |-> IF digitAt(k) = 0 THEN 66 ELSE IF digitAt(k) = 1 THEN 89 ELSE 71]

\* results_code_to_string: five base-3 digits of the code, B / Y / G.
results_code_to_string(code) ==
  LET digitAt(k) == (code \div (3 ^ (k - 1))) % 3
  IN  [k \in 1..5 |-> IF digitAt(k) = 0 THEN 66 ELSE IF digitAt(k) = 1 THEN 89 ELSE 71]

(***************************************************************************)
(* load.rs                                                                 *)
(***************************************************************************)
\* The loop of load_word_list over lines k.. with the words kept so far.
RECURSIVE LoadLines(_, _, _)
LoadLines(lines, k, words) ==
  IF k > Len(lines)
    THEN IF words = <<>>
           THEN [ok |-> FALSE, line |-> 0, words |-> <<>>]
           ELSE [ok |-> TRUE, line |-> 0, words |-> words]
    ELSE LET p == parse_word5(lines[k])
         IN  IF ~p.some
               THEN [ok |-> FALSE, line |-> k, words |-> <<>>]
               ELSE IF \E j \in 1..Len(words) : words[j] = p.val
                 THEN LoadLines(lines, k + 1, words)
                 ELSE LoadLines(lines, k + 1, Append(words, p.val))

\* Mutant: a word already seen is pushed again.
RECURSIVE LoadLines_KeepsDuplicates(_, _, _)
LoadLines_KeepsDuplicates(lines, k, words) ==
  IF k > Len(lines)
    THEN IF words = <<>>
           THEN [ok |-> FALSE, line |-> 0, words |-> <<>>]
           ELSE [ok |-> TRUE, line |-> 0, words |-> words]
    ELSE LET p == parse_word5(lines[k])
         IN  IF ~p.some
               THEN [ok |-> FALSE, line |-> k, words |-> <<>>]
               ELSE LoadLines_KeepsDuplicates(lines, k + 1, Append(words, p.val))

load_word_list_KeepsDuplicates(lines) == LoadLines_KeepsDuplicates(lines, 1, <<>>)

\* Mutant: the error cites the 0-based index of the line.
load_word_list_ZeroBasedLine(lines) ==
  LET r == LoadLines(lines, 1, <<>>)
  IN  IF ~r.ok /\ r.line > 0 THEN [r EXCEPT !.line = r.line - 1] ELSE r

\* Mutant: an empty word list is returned as Ok.
load_word_list_AllowsEmpty(lines) ==
  LET r == LoadLines(lines, 1, <<>>)
  IN  IF ~r.ok /\ r.line = 0 THEN [r EXCEPT !.ok = TRUE] ELSE r

\* load_word_list: Ok(words), or Err citing the 1-based line (0: empty list).
load_word_list(lines) == LoadLines(lines, 1, <<>>)

(***************************************************************************)
(* engine.rs                                                               *)
(***************************************************************************)
\* Mutant: the chunk of a worker is a column of the table.
ChunkCell_ByColumn(n, guess_idx, target_idx) == target_idx * n + guess_idx

\* par_chunks_mut(n).enumerate(): row[target_idx] of chunk guess_idx is the
\* cell guess_idx * n + target_idx of the matrix.
ChunkCell(n, guess_idx, target_idx) == guess_idx * n + target_idx

\* Mutant: guess and target swapped in the oracle call.
build_pattern_matrix_Transposed(words) ==
  LET n == Len(words)
  IN  [c \in 0..(n * n - 1) |->
         U8(simulate_results_code(words[(c % n) + 1], words[(c \div n) + 1]))]

\* Row-major u8 table, index guess_idx * n + target_idx (ordinals from 0).
build_pattern_matrix(words) ==
  LET n == Len(words)
  IN  [c \in 0..(n * n - 1) |->
         U8(simulate_results_code(words[(c \div n) + 1], words[(c % n) + 1]))]

\* HashMap built with entry(word).or_insert(idx): first ordinal of each word.
BuildWordToIndex(words) ==
  [w \in {words[k] : k \in 1..Len(words)} |->
     (CHOOSE k \in 1..Len(words) :
        words[k] = w /\ \A j \in 1..(k - 1) : words[j] # w) - 1]

\* SolverCore, shared by every engine of one vocabulary.
SolverCore(word_list) ==
  [words |-> word_list,
   word_to_index |-> BuildWordToIndex(word_list),
   pattern_matrix |-> build_pattern_matrix(word_list),
   word_count |-> Len(word_list)]

\* Mutant: the candidate ordinals are collected from 1..=word_count.
from_word_list_OneBased(word_list) ==
  [candidate_indices |-> [k \in 1..Len(word_list) |-> k],
   candidate_words |-> word_list,
   attempts |-> 0,
   max_attempts |-> 6]

\* WordleSolver::from_word_list: the per-engine fields.
from_word_list(word_list) ==
  [candidate_indices |-> [k \in 1..Len(word_list) |-> k - 1],
   candidate_words |-> word_list,
   attempts |-> 0,
   max_attempts |-> 6]

candidates(s) == s.candidate_words

attempt_number(s) == s.attempts + 1

contains_word(c, word) == word \in DOMAIN c.word_to_index

\* Mutant: a bucket is set to 1 when its code occurs instead of counted up.
Buckets_NotCounted(row_start, matrix, cands) ==
  [code \in 0..(PATTERN_BUCKETS - 1) |->
     IF \E k \in 1..Len(cands) : matrix[row_start + cands[k]] = code THEN 1 ELSE 0]

\* The bucket counts of calculate_entropy_row: how many candidates the row
\* of the guess maps to each code.
Buckets(row_start, matrix, cands) ==
  [code \in 0..(PATTERN_BUCKETS - 1) |->
     Cardinality({k \in 1..Len(cands) : matrix[row_start + cands[k]] = code})]

\* The product of c^c over the buckets of the given codes; the buckets
\* with c = 0 are skipped by the loop and are left out of codes.
RECURSIVE PowerProduct(_, _)
PowerProduct(buckets, codes) ==
  IF codes = {} THEN 1
  ELSE LET code == CHOOSE x \in codes : TRUE
       IN  (buckets[code] ^ buckets[code]) * PowerProduct(buckets, codes \ {code})

\* calculate_entropy_row.  The entropy h = -sum (c/n) log2(c/n) equals
\* log2(n) - log2(prod c^c) / n; the score is kept as the exact pair
\* [n, key = prod c^c] the real number h is a function of (n = 0: h = 0).
calculate_entropy_row(row_start, matrix, cands) ==
  IF Len(cands) = 0 THEN [n |-> 0, key |-> 1]
  ELSE LET buckets == Buckets(row_start, matrix, cands)
       IN  [n   |-> Len(cands),
            key |-> PowerProduct(buckets,
                      {code \in 0..(PATTERN_BUCKETS - 1) : buckets[code] # 0})]

\* Word::cmp, derived Ord on [u8; 5]: lexicographic order of the bytes.
WordLess(wa, wb) ==
  \E k \in 1..5 : wa[k] < wb[k] /\ \A j \in 1..(k - 1) : wa[j] = wb[j]

\* Mutant: equal scores are not told apart by the word.
EntryBefore_ScoreOnly(ea, eb) == ea.score.key < eb.score.key

\* The comparator of the sort in scored_guesses: higher entropy first (with
\* equal n: smaller key), equal entropy by ascending word.
EntryBefore(ea, eb) ==
  \/ ea.score.key < eb.score.key
  \/ ea.score.key = eb.score.key /\ WordLess(ea.word, eb.word)

\* Insert entry e into the sorted sequence v, after the entries not after it.
RECURSIVE InsertEntry(_, _)
InsertEntry(v, e) ==
  IF v = <<>> THEN <<e>>
  ELSE IF EntryBefore(e, Head(v)) THEN <<e>> \o v
  ELSE <<Head(v)>> \o InsertEntry(Tail(v), e)

\* v.sort_by(..): a stable sort of the entries.
RECURSIVE SortEntries(_)
SortEntries(v) ==
  IF v = <<>> THEN <<>>
  ELSE InsertEntry(SortEntries(SubSeq(v, 1, Len(v) - 1)), v[Len(v)])

\* The orders in which the n workers of a parallel iterator can finish.
FinishOrders(n) ==
  {order \in [1..n -> 1..n] : \A i, j \in 1..n : order[i] = order[j] => i = j}

\* Lines 121-125: the closure run by the worker of the k-th candidate.
ScoreEntry(c, s, k) ==
  [word  |-> c.words[s.candidate_indices[k] + 1],
   score |-> calculate_entropy_row(s.candidate_indices[k] * c.word_count,
                                   c.pattern_matrix, s.candidate_indices)]

\* par_iter().map(..).collect() into a Vec: the workers finish in the given
\* order and the worker of the k-th candidate writes slot k of the vector.
RECURSIVE CollectScores(_, _, _, _)
CollectScores(c, s, order, slots) ==
  IF order = <<>> THEN [k \in 1..Len(s.candidate_indices) |-> slots[k]]
  ELSE CollectScores(c, s, Tail(order),
         (Head(order) :> ScoreEntry(c, s, Head(order))) @@ slots)

\* Mutant: every vocabulary ordinal is scored, not only the candidates.
scored_guesses_AllWords(c, s, order) ==
  SortEntries(
    [k \in 1..c.word_count |->
       [word  |-> c.words[k],
        score |-> calculate_entropy_row((k - 1) * c.word_count, c.pattern_matrix,
                                        s.candidate_indices)]])

\* WordleSolver::scored_guesses: one (word, score) entry per candidate
\* ordinal, computed by workers finishing in the given order and collected
\* in candidate order, then sorted.
scored_guesses(c, s, order) ==
  SortEntries(CollectScores(c, s, order, <<>>))

Ok(v) == [ok |-> TRUE, val |-> v, word |-> <<>>]

Err(e, w) == [ok |-> FALSE, val |-> e, word |-> w]

\* Mutant: the attempt limit compared with > instead of >=.
check_game_status_OffByOne(s, code) ==
  IF code = ALL_GREEN_CODE THEN "Won"
  ELSE IF s.attempts > s.max_attempts THEN "Lost"
  ELSE "Ongoing"

\* Mutant: the attempt limit tested before the all-green code.
check_game_status_LostFirst(s, code) ==
  IF s.attempts >= s.max_attempts THEN "Lost"
  ELSE IF code = ALL_GREEN_CODE THEN "Won"
  ELSE "Ongoing"

check_game_status(s, code) ==
  IF code = ALL_GREEN_CODE THEN "Won"
  ELSE IF s.attempts >= s.max_attempts THEN "Lost"
  ELSE "Ongoing"

\* Mutant: the kept ordinals are collected last to first.
RECURSIVE FilterCandidates_Reversed(_, _, _, _)
FilterCandidates_Reversed(matrix, indices, row_start, code_u8) ==
  IF indices = <<>> THEN <<>>
  ELSE IF matrix[row_start + Head(indices)] = code_u8
    THEN FilterCandidates_Reversed(matrix, Tail(indices), row_start, code_u8)
           \o <<Head(indices)>>
    ELSE FilterCandidates_Reversed(matrix, Tail(indices), row_start, code_u8)

\* The filter of next_turn: the candidate ordinals, in order, whose matrix
\* entry in the guess row equals the code.
RECURSIVE FilterCandidates(_, _, _, _)
FilterCandidates(matrix, indices, row_start, code_u8) ==
  IF indices = <<>> THEN <<>>
  ELSE IF matrix[row_start + Head(indices)] = code_u8
    THEN <<Head(indices)>> \o FilterCandidates(matrix, Tail(indices), row_start, code_u8)
    ELSE FilterCandidates(matrix, Tail(indices), row_start, code_u8)

\* Mutant: the filter runs over every ordinal instead of the candidates.
NextCandidateIndices_FromAll(c, s, guess, feedback) ==
  FilterCandidates(c.pattern_matrix, [k \in 1..c.word_count |-> k - 1],
                   c.word_to_index[guess] * c.word_count, U8(feedback))

\* next_turn, lines 155-162: the filtered candidate ordinals.
NextCandidateIndices(c, s, guess, feedback) ==
  LET code_u8   == U8(feedback)
      guess_idx == c.word_to_index[guess]
      row_start == guess_idx * c.word_count
  IN  FilterCandidates(c.pattern_matrix, s.candidate_indices, row_start, code_u8)

\* Mutant: the attempt is not counted.
Commit_NoCount(c, s, next_candidate_indices, feedback) ==
  LET s2 == [s EXCEPT
               !.candidate_indices = next_candidate_indices,
               !.candidate_words =
                  [k \in 1..Len(next_candidate_indices) |->
                     c.words[next_candidate_indices[k] + 1]]]
  IN  [solver |-> s2, result |-> Ok(check_game_status(s2, feedback))]

\* next_turn, lines 168-175: commit the filtered lists, count the attempt,
\* classify the status.
Commit(c, s, next_candidate_indices, feedback) ==
  LET s2 == [s EXCEPT
               !.candidate_indices = next_candidate_indices,
               !.candidate_words =
                  [k \in 1..Len(next_candidate_indices) |->
                     c.words[next_candidate_indices[k] + 1]],
               !.attempts = s.attempts + 1]
  IN  [solver |-> s2, result |-> Ok(check_game_status(s2, feedback))]

\* Mutant: the guess is looked up before the feedback is range-checked.
next_turn_GuessFirst(c, s, guess, feedback) ==
  IF guess \notin DOMAIN c.word_to_index
    THEN [solver |-> s, result |-> Err("GuessNotInWordList", guess)]
  ELSE IF feedback >= PATTERN_BUCKETS
    THEN [solver |-> s, result |-> Err("InvalidResultsPattern", <<>>)]
  ELSE LET next_candidate_indices == NextCandidateIndices(c, s, guess, feedback)
       IN  IF next_candidate_indices = <<>>
             THEN [solver |-> s, result |-> Err("InconsistentFeedback", <<>>)]
             ELSE Commit(c, s, next_candidate_indices, feedback)

\* Mutant: the filtered lists are stored before the emptiness check.
next_turn_AssignsBeforeCheck(c, s, guess, feedback) ==
  IF feedback >= PATTERN_BUCKETS
    THEN [solver |-> s, result |-> Err("InvalidResultsPattern", <<>>)]
  ELSE IF guess \notin DOMAIN c.word_to_index
    THEN [solver |-> s, result |-> Err("GuessNotInWordList", guess)]
  ELSE LET next_candidate_indices == NextCandidateIndices(c, s, guess, feedback)
       IN  IF next_candidate_indices = <<>>
             THEN [solver |-> [s EXCEPT !.candidate_indices = <<>>,
                                        !.candidate_words = <<>>],
                   result |-> Err("InconsistentFeedback", <<>>)]
             ELSE Commit(c, s, next_candidate_indices, feedback)

\* Mutant: no emptiness check, an empty filter result is committed.
next_turn_NoEmptyCheck(c, s, guess, feedback) ==
  IF feedback >= PATTERN_BUCKETS
    THEN [solver |-> s, result |-> Err("InvalidResultsPattern", <<>>)]
  ELSE IF guess \notin DOMAIN c.word_to_index
    THEN [solver |-> s, result |-> Err("GuessNotInWordList", guess)]
  ELSE Commit(c, s, NextCandidateIndices(c, s, guess, feedback), feedback)

\* Mutant: the guess is looked up among the current candidates only.
next_turn_CandidatesOnly(c, s, guess, feedback) ==
  IF feedback >= PATTERN_BUCKETS
    THEN [solver |-> s, result |-> Err("InvalidResultsPattern", <<>>)]
  ELSE IF guess \notin {s.candidate_words[k] : k \in 1..Len(s.candidate_words)}
    THEN [solver |-> s, result |-> Err("GuessNotInWordList", guess)]
  ELSE LET next_candidate_indices == NextCandidateIndices(c, s, guess, feedback)
       IN  IF next_candidate_indices = <<>>
             THEN [solver |-> s, result |-> Err("InconsistentFeedback", <<>>)]
             ELSE Commit(c, s, next_candidate_indices, feedback)

\* WordleSolver::next_turn on engine s: the engine afterwards and the result.
next_turn(c, s, guess, feedback) ==
  IF feedback >= PATTERN_BUCKETS
    THEN [solver |-> s, result |-> Err("InvalidResultsPattern", <<>>)]
  ELSE IF guess \notin DOMAIN c.word_to_index
    THEN [solver |-> s, result |-> Err("GuessNotInWordList", guess)]
  ELSE LET next_candidate_indices == NextCandidateIndices(c, s, guess, feedback)
       IN  IF next_candidate_indices = <<>>
             THEN [solver |-> s, result |-> Err("InconsistentFeedback", <<>>)]
             ELSE Commit(c, s, next_candidate_indices, feedback)

(***************************************************************************)
(* session.rs                                                              *)
(***************************************************************************)
Turn(guess, feedback) == [guess |-> guess, feedback |-> feedback]

\* GameSession::replay_turns: fold next_turn over the log from a clone of
\* the pristine engine; the first error aborts the replay.
RECURSIVE ReplayFrom(_, _, _)
ReplayFrom(c, rebuilt, log) ==
  IF log = <<>> THEN [ok |-> TRUE, solver |-> rebuilt]
  ELSE LET r == next_turn(c, rebuilt, Head(log).guess, Head(log).feedback)
       IN  IF r.result.ok
             THEN ReplayFrom(c, r.solver, Tail(log))
             ELSE [ok |-> FALSE, solver |-> rebuilt]

replay_turns(c, initial, log) == ReplayFrom(c, initial, log)

\* Mutant: the turn is pushed before the engine's result is inspected.
apply_turn_PushesFirst(c, ss, guess, feedback) ==
  LET r == next_turn(c, ss.solver, guess, feedback)
  IN  [solver |-> r.solver,
       turns  |-> Append(ss.turns, Turn(guess, feedback)),
       result |-> r.result]

\* Mutant: a successful turn is not logged.
apply_turn_NoPush(c, ss, guess, feedback) ==
  LET r == next_turn(c, ss.solver, guess, feedback)
  IN  [solver |-> r.solver, turns |-> ss.turns, result |-> r.result]

\* GameSession::apply_turn on session ss = [solver, turns].  next_turn acts
\* on the live engine in place; `?` returns its error before the push.
apply_turn(c, ss, guess, feedback) ==
  LET r == next_turn(c, ss.solver, guess, feedback)
  IN  IF r.result.ok
        THEN [solver |-> r.solver,
              turns  |-> Append(ss.turns, Turn(guess, feedback)),
              result |-> r.result]
        ELSE [solver |-> r.solver, turns |-> ss.turns, result |-> r.result]

\* Mutant: an empty log is not told apart, the replay of nothing succeeds.
undo_EmptyLogSucceeds(c, initial, ss) ==
  LET rest    == SubSeq(ss.turns, 1, Len(ss.turns) - 1)
      rebuilt == replay_turns(c, initial, rest)
  IN  IF rebuilt.ok
        THEN [solver |-> rebuilt.solver, turns |-> rest, result |-> TRUE,
              initial_solver |-> initial]
        ELSE [solver |-> ss.solver, turns |-> ss.turns, result |-> FALSE,
              initial_solver |-> initial]

\* Mutant: the rebuilt engine is dropped, the live engine stays as it was.
undo_KeepsSolver(c, initial, ss) ==
  IF ss.turns = <<>>
    THEN [solver |-> ss.solver, turns |-> ss.turns, result |-> FALSE,
          initial_solver |-> initial]
    ELSE [solver |-> ss.solver,
          turns  |-> SubSeq(ss.turns, 1, Len(ss.turns) - 1),
          result |-> replay_turns(c, initial, SubSeq(ss.turns, 1, Len(ss.turns) - 1)).ok,
          initial_solver |-> initial]

\* Mutant: the turns are replayed on the pristine engine itself, not on a
\* clone of it.
undo_ReplaysOnBase(c, initial, ss) ==
  IF ss.turns = <<>>
    THEN [solver |-> ss.solver, turns |-> ss.turns, result |-> FALSE,
          initial_solver |-> initial]
    ELSE LET rest    == SubSeq(ss.turns, 1, Len(ss.turns) - 1)
             rebuilt == replay_turns(c, initial, rest)
         IN  [solver |-> rebuilt.solver, turns |-> rest, result |-> TRUE,
              initial_solver |-> rebuilt.solver]

\* GameSession::undo on session ss = [solver, turns] with the pristine
\* engine initial; replay_turns works on a clone, the pristine engine is
\* left as it was.
undo(c, initial, ss) ==
  IF ss.turns = <<>>
    THEN [solver |-> ss.solver, turns |-> ss.turns, result |-> FALSE,
          initial_solver |-> initial]
    ELSE LET popped_turn == ss.turns[Len(ss.turns)]
             rest        == SubSeq(ss.turns, 1, Len(ss.turns) - 1)
             rebuilt     == replay_turns(c, initial, rest)
         IN  IF rebuilt.ok
               THEN [solver |-> rebuilt.solver, turns |-> rest, result |-> TRUE,
                     initial_solver |-> initial]
               ELSE [solver |-> ss.solver,
                     turns  |-> Append(rest, popped_turn),
                     result |-> FALSE,
                     initial_solver |-> initial]

(***************************************************************************)
(* Inputs: word-list files, guesses and feedback codes.                    *)
(***************************************************************************)
\* arise / raise / serai / irate: the vocabulary of solver/tests.rs.
FileTest ==
  << <<Chr.a, Chr.r, Chr.i, Chr.s, Chr.e>>,
     <<Chr.r, Chr.a, Chr.i, Chr.s, Chr.e>>,
     <<Chr.s, Chr.e, Chr.r, Chr.a, Chr.i>>,
     <<Chr.i, Chr.r, Chr.a, Chr.t, Chr.e>> >>

\* " allee" / apple / "APPLE " / lapel: repeated letters, a padded line and
\* a case-insensitive duplicate line.
FileDup ==
  << <<Chr.sp, Chr.a, Chr.l, Chr.l, Chr.e, Chr.e>>,
     <<Chr.a, Chr.p, Chr.p, Chr.l, Chr.e>>,
     <<Chr.A, Chr.P, Chr.P, Chr.L, Chr.E, Chr.sp>>,
     <<Chr.l, Chr.a, Chr.p, Chr.e, Chr.l>> >>

\* arise / raise
FilePair ==
  << <<Chr.a, Chr.r, Chr.i, Chr.s, Chr.e>>,
     <<Chr.r, Chr.a, Chr.i, Chr.s, Chr.e>> >>

\* apple / "LAPEL " / lapel
FilePairDup ==
  << <<Chr.a, Chr.p, Chr.p, Chr.l, Chr.e>>,
     <<Chr.L, Chr.A, Chr.P, Chr.E, Chr.L, Chr.sp>>,
     <<Chr.l, Chr.a, Chr.p, Chr.e, Chr.l>> >>

\* apple / bad! / lapel: line 2 is no word.
FileBad ==
  << <<Chr.a, Chr.p, Chr.p, Chr.l, Chr.e>>,
     <<Chr.b, Chr.a, Chr.d, Chr.bang>>,
     <<Chr.l, Chr.a, Chr.p, Chr.e, Chr.l>> >>

\* A file without lines.
FileEmpty == << >>

\* Small vocabularies, explored to MaxTurns turns.
Files == {FilePair, FilePairDup, FileBad, FileEmpty}

\* Larger vocabularies, explored to MaxRichTurns turns.
RichFiles == {FileTest, FileDup, FileBad, FileEmpty}

\* A codec-valid word outside every vocabulary above.
OutsideWord == <<Chr.z, Chr.e, Chr.b, Chr.r, Chr.a>>

GuessInputs(c) == {c.words[k] : k \in 1..Len(c.words)} \cup {OutsideWord}

\* Every code of the matrix, BBBBB, GGGGG, the first invalid value and a
\* value whose low byte is the all-green code.
FeedbackInputs(c) ==
  {c.pattern_matrix[k] : k \in DOMAIN c.pattern_matrix}
    \cup {0, ALL_GREEN_CODE, PATTERN_BUCKETS, 256 + ALL_GREEN_CODE}

(***************************************************************************)
(* State.                                                                  *)
(***************************************************************************)
VARIABLES
  loaded,          \* result of load_word_list for the path given to new()
  core,            \* Arc<SolverCore> shared by solver and initial_solver
  initial_solver,  \* GameSession.initial_solver
  solver,          \* GameSession.solver
  turns,           \* GameSession.turns
  last,            \* the last call: [op, guess, feedback, result]
  prev,            \* solver and turns as they were before the last call
  history          \* history[k]: the k-th successful, not undone call of
                   \* apply_turn: its turn, its status, the engine after it
VARIABLE
  call             \* a call of a single function on its own:
                   \* [fn, arg, done, out]

vars == <<loaded, core, initial_solver, solver, turns, last, prev, history, call>>

NoPureCall == [fn |-> "none", arg |-> <<>>, done |-> TRUE, out |-> 0]

NoCall == [op |-> "new", guess |-> <<>>, feedback |-> 0, result |-> Ok("none")]

Session == [solver |-> solver, turns |-> turns]

\* GameSession::new(path): load, build the engine, clone it as the pristine
\* base.  A load error constructs nothing.
InitFrom(files) ==
  \E file \in files :
    /\ loaded = load_word_list(file)
    /\ core = IF loaded.ok THEN SolverCore(loaded.words) ELSE SolverCore(<<>>)
    /\ solver = from_word_list(core.words)
    /\ initial_solver = solver
    /\ turns = <<>>
    /\ last = NoCall
    /\ prev = [solver |-> solver, turns |-> turns]
    /\ history = <<>>

Init == InitFrom(Files) /\ call = NoPureCall

InitRich == InitFrom(RichFiles) /\ call = NoPureCall

\* session.apply_turn(guess, feedback), while the log is shorter than bound.
ApplyTurn(bound, guess, feedback) ==
  /\ loaded.ok
  /\ Len(turns) < bound
  /\ LET r == apply_turn(core, Session, guess, feedback)
     IN  /\ solver' = r.solver
         /\ turns' = r.turns
         /\ last' = [op |-> "apply_turn", guess |-> guess,
                     feedback |-> feedback, result |-> r.result]
         /\ history' = IF r.result.ok
                         THEN Append(history, [turn   |-> Turn(guess, feedback),
                                               status |-> r.result.val,
                                               solver |-> r.solver])
                         ELSE history
  /\ prev' = Session
  /\ UNCHANGED <<loaded, core, initial_solver, call>>

\* session.undo()
Undo ==
  /\ loaded.ok
  /\ LET r == undo(core, initial_solver, Session)
     IN  /\ solver' = r.solver
         /\ turns' = r.turns
         /\ initial_solver' = r.initial_solver
         /\ last' = [op |-> "undo", guess |-> <<>>, feedback |-> 0,
                     result |-> IF r.result THEN Ok("true") ELSE Err("false", <<>>)]
         /\ history' = IF r.result
                         THEN SubSeq(history, 1, Len(history) - 1)
                         ELSE history
  /\ prev' = Session
  /\ UNCHANGED <<loaded, core, call>>

\* session.solver().scored_guesses()
ScoredGuesses ==
  /\ loaded.ok
  /\ \E order \in FinishOrders(Len(solver.candidate_indices)) :
       last' = [op |-> "scored_guesses", guess |-> <<>>, feedback |-> 0,
                result |-> Ok(scored_guesses(core, solver, order))]
  /\ prev' = Session
  /\ UNCHANGED <<loaded, core, initial_solver, solver, turns, history, call>>

Next ==
  \/ \E guess \in GuessInputs(core), feedback \in FeedbackInputs(core) :
       ApplyTurn(MaxTurns, guess, feedback)
  \/ Undo
  \/ ScoredGuesses

Spec == Init /\ [][Next]_vars

NextRich ==
  \/ \E guess \in GuessInputs(core), feedback \in FeedbackInputs(core) :
       ApplyTurn(MaxRichTurns, guess, feedback)
  \/ Undo
  \/ ScoredGuesses

SpecRich == InitRich /\ [][NextRich]_vars

(***************************************************************************)
(* Functions of oracle.rs, load.rs and engine.rs called on their own.  The *)
(* initial state holds the argument of one call, the action of the         *)
(* function applies it.                                                    *)
(***************************************************************************)
\* All 5-letter words over a, e, l, and allee / apple / lapel.
OracleWords ==
  [1..5 -> {Chr.a, Chr.e, Chr.l}]
    \cup {parse_word5(FileDup[k]).val : k \in 1..Len(FileDup)}

CodeChars == {Chr.B, Chr.Y, Chr.G}

\* Texts of up to MaxCodeLen code characters, texts of 5 characters with
\* lowercase g or blanks among them, and texts of 6 made of G and blanks.
CodeTexts ==
  UNION {[1..n -> CodeChars] : n \in 0..MaxCodeLen}
    \cup [1..5 -> CodeChars \cup {Chr.g, Chr.sp}]
    \cup [1..6 -> {Chr.G, Chr.sp}]

\* Every pattern code, and two u16 values that are none.
CodeInputs == 0..(PATTERN_BUCKETS - 1) \cup {PATTERN_BUCKETS, 256 + ALL_GREEN_CODE}

\* The ordinals of a set as the ascending sequence the engine keeps.
RECURSIVE Ascending(_)
Ascending(S) ==
  IF S = {} THEN <<>>
  ELSE LET m == CHOOSE x \in S : \A y \in S : y <= x
       IN  Append(Ascending(S \ {m}), m)

\* Arguments of calculate_entropy_row over the vocabularies of FileTest and
\* FileDup: every row of the matrix with every candidate list, the empty
\* list included.
EntropyInputs ==
  UNION {LET words == load_word_list(file).words
             n     == Len(words)
         IN  {<<g * n, build_pattern_matrix(words), Ascending(S)>> :
                g \in 0..(n - 1), S \in SUBSET (0..(n - 1))}
         : file \in {FileTest, FileDup}}

\* Texts of 5 characters over letters and the characters next to the
\* letter ranges, and texts of up to MaxWordTextLen characters made of a
\* lowercase letter, an uppercase letter, a blank and a tab.
WordTexts ==
  [1..5 -> {Chr.at, Chr.A, Chr.Z, Chr.lbracket, Chr.backtick, Chr.a, Chr.z, Chr.lbrace}]
    \cup UNION {[1..n -> {Chr.a, Chr.E, Chr.sp}] : n \in 0..MaxWordTextLen}
    \cup {<<Chr.tab>> \o FileDup[3] \o <<Chr.tab>>}

\* Lines of word-list files: apple, "APPLE ", lapel, "LAPEL ", " allee",
\* "bad!" and the empty line.
FileLines ==
  {FileDup[1], FileDup[2], FileDup[3], FileDup[4], FilePairDup[2], FileBad[2], <<>>}

\* Word-list files of up to MaxFileLines lines.
FileInputs == UNION {[1..n -> FileLines] : n \in 0..MaxFileLines}

PendingCall(fn, arg) == [fn |-> fn, arg |-> arg, done |-> FALSE, out |-> 0]

InitPure ==
  /\ InitFrom({FileEmpty})
  /\ \/ \E g, t \in OracleWords : call = PendingCall("simulate_results_code", <<g, t>>)
     \/ \E text \in CodeTexts : call = PendingCall("parse_results_code", text)
     \/ \E code \in CodeInputs : call = PendingCall("results_code_to_string", code)
     \/ \E args \in EntropyInputs : call = PendingCall("calculate_entropy_row", args)
     \/ \E text \in WordTexts : call = PendingCall("parse_word5", text)
     \/ \E file \in FileInputs : call = PendingCall("load_word_list", file)

Return(out) ==
  /\ call' = [call EXCEPT !.done = TRUE, !.out = out]
  /\ UNCHANGED <<loaded, core, initial_solver, solver, turns, last, prev, history>>

SimulateResultsCode ==
  /\ call.fn = "simulate_results_code" /\ ~call.done
  /\ Return(simulate_results_code(call.arg[1], call.arg[2]))

ParseResultsCode ==
  /\ call.fn = "parse_results_code" /\ ~call.done
  /\ Return(parse_results_code(call.arg))

ResultsCodeToString ==
  /\ call.fn = "results_code_to_string" /\ ~call.done
  /\ Return(results_code_to_string(call.arg))

CalculateEntropyRow ==
  /\ call.fn = "calculate_entropy_row" /\ ~call.done
  /\ Return(calculate_entropy_row(call.arg[1], call.arg[2], call.arg[3]))

ParseWord5 ==
  /\ call.fn = "parse_word5" /\ ~call.done
  /\ Return(parse_word5(call.arg))

LoadWordList ==
  /\ call.fn = "load_word_list" /\ ~call.done
  /\ Return(load_word_list(call.arg))

NextPure ==
  \/ SimulateResultsCode
  \/ ParseResultsCode
  \/ ResultsCodeToString
  \/ CalculateEntropyRow
  \/ ParseWord5
  \/ LoadWordList

SpecPure == InitPure /\ [][NextPure]_vars

(***************************************************************************)
(* build_pattern_matrix step by step: one worker per guess row, the cells  *)
(* of the rows written in any interleaving.  The call holds the matrix     *)
(* under construction, the next target of every worker and, for every      *)
(* cell, the workers that have written it.                                 *)
(***************************************************************************)
\* The vocabularies the matrix is built over, the empty one included.
BuildInputs ==
  {load_word_list(file).words : file \in {FileTest, FileDup, FilePair}} \cup {<<>>}

\* Line 15: vec![0u8; n * n], no worker started.
BuildStart(words) ==
  LET n == Len(words)
  IN  [matrix |-> [cell \in 0..(n * n - 1) |-> 0],
       next   |-> [guess_idx \in 0..(n - 1) |-> 0],
       writes |-> [cell \in 0..(n * n - 1) |-> <<>>]]

InitBuild ==
  /\ InitFrom({FileEmpty})
  /\ \E words \in BuildInputs :
       call = [fn |-> "build_pattern_matrix", arg |-> words, done |-> FALSE,
               out |-> BuildStart(words)]

\* Lines 20-23: the worker of row guess_idx writes its next cell.
WriteCell(guess_idx) ==
  /\ call.fn = "build_pattern_matrix" /\ ~call.done
  /\ LET words      == call.arg
         n          == Len(words)
         target_idx == call.out.next[guess_idx]
         cell       == ChunkCell(n, guess_idx, target_idx)
     IN  /\ target_idx < n
         /\ call' = [call EXCEPT
                       !.out.matrix[cell] =
                          U8(simulate_results_code(words[guess_idx + 1],
                                                   words[target_idx + 1])),
                       !.out.next[guess_idx] = target_idx + 1,
                       !.out.writes[cell] = Append(@, guess_idx)]
  /\ UNCHANGED <<loaded, core, initial_solver, solver, turns, last, prev, history>>

\* Lines 11-13 and 24-25: for_each returns when every worker has finished
\* its row (at once when there is no word); the matrix is returned.
JoinWorkers ==
  /\ call.fn = "build_pattern_matrix" /\ ~call.done
  /\ \A guess_idx \in DOMAIN call.out.next : call.out.next[guess_idx] = Len(call.arg)
  /\ call' = [call EXCEPT !.done = TRUE]
  /\ UNCHANGED <<loaded, core, initial_solver, solver, turns, last, prev, history>>

NextBuild ==
  \/ \E guess_idx \in DOMAIN call.out.next : WriteCell(guess_idx)
  \/ JoinWorkers

SpecBuild == InitBuild /\ [][NextBuild]_vars

(***************************************************************************)
(* modes/game.rs: run().  The call holds the local secret; done is set     *)
(* when run() has returned.                                                *)
(***************************************************************************)
\* Mutant: the oracle is asked with the secret as the guess.
GameFeedback_Swapped(guess, secret) == simulate_results_pattern(secret, guess)

\* Line 100: the feedback of a guess against the secret.
GameFeedback(guess, secret) == simulate_results_pattern(guess, secret)

\* Lines 18-26: the session is built (a load error returns from run), the
\* secret is chosen among all words.
InitGame ==
  /\ InitFrom(RichFiles)
  /\ IF loaded.ok
       THEN \E secret \in {candidates(solver)[k] : k \in 1..Len(candidates(solver))} :
              call = [fn |-> "game", arg |-> <<>>, done |-> FALSE,
                      out |-> [secret |-> secret]]
       ELSE call = [fn |-> "game", arg |-> <<>>, done |-> TRUE,
                    out |-> [secret |-> <<>>]]

GameRunning == call.fn = "game" /\ ~call.done

\* Lines 94-128: a codec-valid guess was entered.  A guess outside the word
\* list is refused by the mode; otherwise the oracle's feedback against the
\* secret is applied, and Won or Lost ends the loop.
GameSubmitGuess(guess) ==
  /\ GameRunning
  /\ IF ~contains_word(core, guess)
       THEN /\ last' = [op |-> "not_allowed", guess |-> guess, feedback |-> 0,
                        result |-> Err("NotInAllowedList", guess)]
            /\ UNCHANGED <<solver, turns, history, call>>
       ELSE LET results_code == GameFeedback(guess, call.out.secret)
                r == apply_turn(core, Session, guess, results_code)
            IN  /\ solver' = r.solver
                /\ turns' = r.turns
                /\ last' = [op |-> "apply_turn", guess |-> guess,
                            feedback |-> results_code, result |-> r.result]
                /\ history' = IF r.result.ok
                                THEN Append(history, [turn   |-> Turn(guess, results_code),
                                                      status |-> r.result.val,
                                                      solver |-> r.solver])
                                ELSE history
                /\ call' = [call EXCEPT
                              !.done = r.result.ok /\ r.result.val \in {"Won", "Lost"}]
  /\ prev' = Session
  /\ UNCHANGED <<loaded, core, initial_solver>>

\* Lines 76-80: /UNDO.
GameUndo == GameRunning /\ Undo

\* Lines 54-59: /HINT.
GameHints == GameRunning /\ ScoredGuesses

\* Lines 49-53, 60-75, 82-91: /HELP, /STATUS, /BOARD, an unknown command or
\* an invalid guess: something is printed, the session is left alone.
GameDisplay ==
  /\ GameRunning
  /\ last' = [op |-> "display", guess |-> <<>>, feedback |-> 0, result |-> Ok("none")]
  /\ prev' = Session
  /\ UNCHANGED <<loaded, core, initial_solver, solver, turns, history, call>>

\* Lines 43-45 and 81: end of input or /EXIT.
GameExit ==
  /\ GameRunning
  /\ call' = [call EXCEPT !.done = TRUE]
  /\ UNCHANGED <<loaded, core, initial_solver, solver, turns, last, prev, history>>

NextGame ==
  \/ \E guess \in GuessInputs(core) : GameSubmitGuess(guess)
  \/ GameUndo
  \/ GameHints
  \/ GameDisplay
  \/ GameExit

SpecGame == InitGame /\ [][NextGame]_vars

(***************************************************************************)
(* ui.rs: the parsers of solver mode.                                      *)
(***************************************************************************)
\* The bound of |score - best| in tie_set is 1e-10.  Scores of one call
\* share n, and for the vocabularies here (n <= 4, key <= 256) two
\* different keys give entropies at least 0.25 apart, and equal keys are
\* computed by the same operations: within the bound means the same score.
WithinEps(score, best) == score.n = best.n /\ score.key = best.key

\* The while loop of tie_set: end grows while the next score ties the best.
RECURSIVE TieEnd(_, _)
TieEnd(scored, end) ==
  IF end < Len(scored) /\ WithinEps(scored[end + 1].score, scored[1].score)
    THEN TieEnd(scored, end + 1)
    ELSE end

\* tie_set(scored, 1e-10): the leading entries that tie the first one.
tie_set(scored) == SubSeq(scored, 1, TieEnd(scored, 1))

\* read_line_trimmed on a line that was read (end of input is apart).
read_line_trimmed(line) == Trim(line)

IsDigit(b) == b >= 48 /\ b <= 57

RECURSIVE DigitsValue(_, _)
DigitsValue(digits, acc) ==
  IF digits = <<>> THEN acc
  ELSE DigitsValue(Tail(digits), acc * 10 + (Head(digits) - 48))

\* str::parse::<usize>: an optional '+', then at least one decimal digit.
\* The error for a value beyond 64 bits is left out: the lines read here
\* hold one digit.
parse_usize(text) ==
  LET digits == IF text # <<>> /\ text[1] = 43 THEN Tail(text) ELSE text
  IN  IF digits = <<>> \/ \E k \in 1..Len(digits) : ~IsDigit(digits[k]) THEN None
      ELSE Some(DigitsValue(digits, 0))

Pick(w) == [kind |-> "Pick", word |-> w]

InvalidChoice == [kind |-> "InvalidChoice", word |-> <<>>]

\* Mutant: a typed word is picked whether or not it is on the list shown.
parse_solver_choice_AnyWord(input, scored) ==
  IF input = <<>> THEN Pick(scored[1].word)
  ELSE LET k == parse_usize(input)
           w == parse_word5(input)
       IN  IF k.some /\ k.val \in 1..Len(scored) THEN Pick(scored[k.val].word)
           ELSE IF w.some THEN Pick(w.val)
           ELSE InvalidChoice

\* parse_solver_choice: the empty line picks #1, a rank picks its entry, a
\* word is picked when it is on the list.
parse_solver_choice(input, scored) ==
  IF input = <<>> THEN Pick(scored[1].word)
  ELSE LET k == parse_usize(input)
           w == parse_word5(input)
       IN  IF k.some /\ k.val \in 1..Len(scored) THEN Pick(scored[k.val].word)
           ELSE IF w.some /\ \E x \in 1..Len(scored) : scored[x].word = w.val
                  THEN Pick(w.val)
           ELSE InvalidChoice

\* u8::to_ascii_uppercase
to_ascii_uppercase(text) ==
  [k \in 1..Len(text) |-> IF IsLower(text[k]) THEN text[k] - 32 ELSE text[k]]

\* str::split_whitespace: the maximal runs of non-whitespace.
RECURSIVE split_whitespace(_)
split_whitespace(text) ==
  LET s == TrimStart(text)
      stops == {k \in 1..Len(s) : IsWhitespace(s[k])}
      stop == IF stops = {} THEN Len(s) + 1
              ELSE CHOOSE k \in stops : \A j \in stops : k <= j
  IN  IF s = <<>> THEN <<>>
      ELSE <<SubSeq(s, 1, stop - 1)>> \o split_whitespace(SubSeq(s, stop, Len(s)))

Decision(kind, n) == [kind |-> kind, n |-> n]

\* parse_solver_feedback: a G/Y/B pattern in either case, else a command.
parse_solver_feedback(raw) ==
  LET trimmed == Trim(raw)
      upper == to_ascii_uppercase(trimmed)
      code == parse_results_code(upper)
      parts == split_whitespace(upper)
      cmd == parts[1]
      arg == IF Len(parts) >= 2 THEN parse_usize(parts[2]) ELSE None
      parsed_n == IF arg.some THEN arg.val ELSE 10
      max1 == IF parsed_n < 1 THEN 1 ELSE parsed_n
  IN  IF trimmed = <<>> THEN Decision("InvalidInput", 0)
      ELSE IF code.some THEN Decision("SubmitFeedback", code.val)
      ELSE IF parts = <<>> THEN Decision("InvalidInput", 0)
      ELSE IF cmd = <<72, 69, 76, 80>> THEN Decision("Help", 0)
      ELSE IF cmd = <<83, 84, 65, 84, 85, 83>> THEN Decision("Status", 0)
      ELSE IF cmd = <<84, 79, 80>> THEN Decision("Top", max1)
      ELSE IF cmd = <<67, 65, 78, 68, 83>> THEN Decision("Cands", max1)
      ELSE IF cmd = <<66, 79, 65, 82, 68>> THEN Decision("Board", 0)
      ELSE IF cmd = <<85, 78, 68, 79>> THEN Decision("UndoRestart", 0)
      ELSE IF cmd = <<69, 88, 73, 84>> THEN Decision("ExitMode", 0)
      ELSE Decision("InvalidInput", 0)

(***************************************************************************)
(* modes/solver.rs: run().  The call holds the locals of the loop: where   *)
(* run() stands (pc), scored, ties and guess; done is set when the loop    *)
(* has been left.                                                          *)
(***************************************************************************)
SolverLocals(pc, scored, ties, guess) ==
  [pc |-> pc, scored |-> scored, ties |-> ties, guess |-> guess]

\* Line 15: the session is built; a load error returns from run.
InitSolver ==
  /\ InitFrom(RichFiles)
  /\ call = [fn |-> "solver", arg |-> <<>>, done |-> ~loaded.ok,
             out |-> SolverLocals("top", <<>>, <<>>, <<>>)]

SolverAt(pc) == call.fn = "solver" /\ ~call.done /\ call.out.pc = pc

\* Lines 18-45 and 58-63: the head of the loop.  The candidates are scored;
\* without scores the loop is left; a single best guess is suggested, tied
\* best guesses are listed for a choice.
SolverSuggest ==
  /\ SolverAt("top")
  /\ \E order \in FinishOrders(Len(solver.candidate_indices)) :
       LET scored == scored_guesses(core, solver, order)
           ties == tie_set(scored)
       IN  /\ last' = [op |-> "scored_guesses", guess |-> <<>>, feedback |-> 0,
                       result |-> Ok(scored)]
           /\ call' = IF scored = <<>>
                        THEN [call EXCEPT !.done = TRUE,
                                          !.out = SolverLocals("no_candidates", scored, <<>>, <<>>)]
                      ELSE IF Len(ties) > 1
                        THEN [call EXCEPT !.out = SolverLocals("choice", scored, ties, <<>>)]
                      ELSE [call EXCEPT !.out = SolverLocals("feedback", scored, ties, scored[1].word)]
  /\ prev' = Session
  /\ UNCHANGED <<loaded, core, initial_solver, solver, turns, history>>

\* Lines 46-57: a line is read for the choice among the tied guesses; an
\* invalid choice is asked again.
SolverChoice(line) ==
  /\ SolverAt("choice")
  /\ LET d == parse_solver_choice(read_line_trimmed(line), call.out.ties)
     IN  call' = IF d.kind = "Pick"
                   THEN [call EXCEPT !.out.pc = "feedback", !.out.guess = d.word]
                   ELSE call
  /\ UNCHANGED <<loaded, core, initial_solver, solver, turns, last, prev, history>>

\* Lines 64-124: a line is read for the feedback.  A pattern is applied to
\* the session: an error or Ongoing goes back to the head of the loop, Won
\* or Lost leaves it.  UNDO undoes and goes back to the head, EXIT returns,
\* everything else prints and reads again.
SolverFeedback(line) ==
  /\ SolverAt("feedback")
  /\ LET d == parse_solver_feedback(read_line_trimmed(line))
         guess == call.out.guess
         top == SolverLocals("top", <<>>, <<>>, <<>>)
     IN  IF d.kind = "SubmitFeedback"
           THEN LET r == apply_turn(core, Session, guess, d.n)
                IN  /\ solver' = r.solver
                    /\ turns' = r.turns
                    /\ last' = [op |-> "apply_turn", guess |-> guess,
                                feedback |-> d.n, result |-> r.result]
                    /\ history' = IF r.result.ok
                                    THEN Append(history, [turn   |-> Turn(guess, d.n),
                                                          status |-> r.result.val,
                                                          solver |-> r.solver])
                                    ELSE history
                    /\ call' = IF r.result.ok /\ r.result.val \in {"Won", "Lost"}
                                 THEN [call EXCEPT !.done = TRUE,
                                                   !.out = SolverLocals("finished", <<>>, <<>>, <<>>)]
                                 ELSE [call EXCEPT !.out = top]
                    /\ UNCHANGED initial_solver
         ELSE IF d.kind = "UndoRestart"
           THEN LET r == undo(core, initial_solver, Session)
                IN  /\ solver' = r.solver
                    /\ turns' = r.turns
                    /\ initial_solver' = r.initial_solver
                    /\ last' = [op |-> "undo", guess |-> <<>>, feedback |-> 0,
                                result |-> IF r.result THEN Ok("true")
                                           ELSE Err("false", <<>>)]
                    /\ history' = IF r.result
                                    THEN SubSeq(history, 1, Len(history) - 1)
                                    ELSE history
                    /\ call' = [call EXCEPT !.out = top]
         ELSE /\ last' = [op |-> "display", guess |-> <<>>, feedback |-> 0,
                          result |-> Ok(d.kind)]
              /\ call' = IF d.kind = "ExitMode"
                           THEN [call EXCEPT !.done = TRUE,
                                             !.out = SolverLocals("exit", <<>>, <<>>, <<>>)]
                           ELSE call
              /\ UNCHANGED <<solver, turns, initial_solver, history>>
  /\ prev' = Session
  /\ UNCHANGED <<loaded, core>>

\* Lines 47-49 and 65-67: the input has ended at either read.
SolverEndOfInput ==
  /\ SolverAt("choice") \/ SolverAt("feedback")
  /\ call' = [call EXCEPT !.done = TRUE,
                          !.out = SolverLocals("exit", <<>>, <<>>, <<>>)]
  /\ UNCHANGED <<loaded, core, initial_solver, solver, turns, last, prev, history>>

\* Lines typed at the choice: the empty line, ranks in and out of range,
\* the words of the vocabulary in either case and a word outside it.
SolverChoiceLines(c) ==
  {<<>>, <<48>>, <<49>>, <<50>>, <<51>>, <<52>>, <<43, 50>>, <<Chr.z>>}
    \cup GuessInputs(c)
    \cup {to_ascii_uppercase(w) \o <<Chr.sp>> : w \in GuessInputs(c)}

\* Lines typed at the feedback: the pattern of every code of the matrix,
\* BBBBB and GGGGG, "ggggg ", a pattern that is too short, the commands
\* help, status, top 3, cands 0, board, undo, EXIT, an unknown command
\* and the empty line.
SolverFeedbackLines(c) ==
  {results_code_to_string(code) :
     code \in {c.pattern_matrix[k] : k \in DOMAIN c.pattern_matrix} \cup {0, ALL_GREEN_CODE}}
    \cup {<<103, 103, 103, 103, 103, 32>>, <<71, 89>>,
          <<104, 101, 108, 112>>, <<115, 116, 97, 116, 117, 115>>,
          <<116, 111, 112, 32, 51>>, <<99, 97, 110, 100, 115, 32, 48>>,
          <<98, 111, 97, 114, 100>>, <<117, 110, 100, 111>>,
          <<69, 88, 73, 84>>, <<119, 104, 97, 116>>, <<>>}

NextSolver ==
  \/ SolverSuggest
  \/ \E line \in SolverChoiceLines(core) : SolverChoice(line)
  \/ \E line \in SolverFeedbackLines(core) : SolverFeedback(line)
  \/ SolverEndOfInput

SpecSolver == InitSolver /\ [][NextSolver]_vars

(***************************************************************************)
(* Properties.                                                             *)
(***************************************************************************)
SeqToSet(seq) == {seq[k] : k \in 1..Len(seq)}

CalledApply == loaded.ok /\ last.op = "apply_turn"

ApplyOk == CalledApply /\ last.result.ok

ApplyFailed == CalledApply /\ ~last.result.ok

\* The candidates before the last call that the oracle, evaluated directly
\* on the words, maps to the feedback of the last call.
OracleMatches ==
  {w \in SeqToSet(candidates(prev.solver)) :
     simulate_results_code(last.guess, w) = last.feedback}

TestVocabulary == [k \in 1..4 |-> FileTest[k]]

\* C1: after a successful applyTurn(guess, feedback) the candidate set is
\* exactly the set of previous candidates w with oracle(guess, w) = feedback;
\* on the vocabulary {arise, raise, serai, irate}, applyTurn(raise, YYGGG)
\* on the fresh engine leaves exactly {arise} and returns Ongoing.
C1_FilteringCorrect ==
  ApplyOk =>
    /\ SeqToSet(candidates(solver)) = OracleMatches
    /\ ( /\ core.words = TestVocabulary
         /\ prev.turns = <<>>
         /\ last.guess = TestVocabulary[2]
         /\ last.feedback = parse_results_code(<<Chr.Y, Chr.Y, Chr.G, Chr.G, Chr.G>>).val )
       => /\ candidates(solver) = <<TestVocabulary[1]>>
          /\ last.result = Ok("Ongoing")

\* The scenario has happened: raise / YYGGG on the fresh test vocabulary
\* removed three of the four candidates.
C1_Witness ==
  /\ ApplyOk
  /\ core.words = TestVocabulary
  /\ prev.turns = <<>>
  /\ last.guess = TestVocabulary[2]
  /\ last.feedback = 238
  /\ candidates(solver) = <<TestVocabulary[1]>>

\* C2: if applyTurn(guess, feedback), with the feedback in range and the
\* guess in the vocabulary, would leave no candidate (no current candidate w
\* has oracle(guess, w) = feedback), it reports InconsistentFeedback and the
\* engine (candidates, attempt number, every field) and the log are as
\* before the call.
C2_AllOrNothing ==
  ( /\ CalledApply
    /\ last.feedback < PATTERN_BUCKETS
    /\ last.guess \in SeqToSet(core.words)
    /\ OracleMatches = {} )
  => /\ last.result = Err("InconsistentFeedback", <<>>)
     /\ candidates(solver) = candidates(prev.solver)
     /\ attempt_number(solver) = attempt_number(prev.solver)
     /\ solver = prev.solver
     /\ turns = prev.turns

\* An inconsistent feedback was given after some turn had already shrunk
\* the candidates.
C2_Witness ==
  /\ CalledApply
  /\ last.result = Err("InconsistentFeedback", <<>>)
  /\ prev.turns # <<>>
  /\ Len(candidates(prev.solver)) < Len(core.words)

CalledUndo == loaded.ok /\ last.op = "undo"

\* The engine WordleSolver::from_word_list builds over the full vocabulary.
FreshEngine == from_word_list(core.words)

\* C3: after successful applies T1..Tn (n >= 1), undo() returns true and
\* leaves the log, the candidates and the attempt counter as they were
\* right after T(n-1), or as in the initial full-vocabulary state when n = 1.
C3_UndoInvertsApply ==
  (CalledUndo /\ prev.turns # <<>>) =>
    LET n      == Len(prev.turns)
        before == IF n = 1 THEN FreshEngine ELSE history[n - 1].solver
    IN  /\ last.result = Ok("true")
        /\ turns = SubSeq(prev.turns, 1, n - 1)
        /\ candidates(solver) = candidates(before)
        /\ attempt_number(solver) = attempt_number(before)
        /\ solver = before

\* An undo took back a turn that had shrunk the candidates, with an earlier
\* turn still logged.
C3_Witness ==
  /\ CalledUndo
  /\ last.result = Ok("true")
  /\ turns # <<>>
  /\ Len(candidates(solver)) > Len(candidates(prev.solver))

\* C4: Won and Lost are terminal: once an applyTurn of the engine has
\* returned Won or Lost, every later successful applyTurn of that engine
\* returns that same status.
C4_TerminalStatus ==
  \A j \in 1..Len(history) : \A k \in (j + 1)..Len(history) :
    history[j].status \in {"Won", "Lost"} => history[k].status = history[j].status

\* C5: counted from the fresh engine, the 6th successful turn returns Lost
\* and the 1st to 5th return Ongoing when the feedback is not all-correct;
\* failed calls are not counted.
C5_LostOnSixth ==
  /\ (ApplyOk /\ last.feedback # ALL_GREEN_CODE) =>
       /\ Len(history) = 6 => last.result = Ok("Lost")
       /\ Len(history) <= 5 => last.result = Ok("Ongoing")
  /\ ApplyFailed => solver.attempts = prev.solver.attempts

\* The 6th successful turn, not all-correct, returned Lost.
C5_Witness ==
  /\ ApplyOk
  /\ Len(history) = 6
  /\ last.result = Ok("Lost")

\* C6: a successful applyTurn with the all-correct code returns Won whatever
\* the attempt counter is, the 6th successful turn included.
C6_WonHasPriority ==
  (ApplyOk /\ last.feedback = ALL_GREEN_CODE) => last.result = Ok("Won")

\* The 6th successful turn, all-correct, returned Won.
C6_Witness ==
  /\ ApplyOk
  /\ last.feedback = ALL_GREEN_CODE
  /\ solver.attempts = 6
  /\ last.result = Ok("Won")

\* The result the classification order prescribes for the last call,
\* from the vocabulary, the candidates before the call and the oracle.
Classified ==
  IF ~(last.feedback >= 0 /\ last.feedback < 243) THEN "InvalidResultsPattern"
  ELSE IF last.guess \notin SeqToSet(core.words) THEN "GuessNotInWordList"
  ELSE IF OracleMatches = {} THEN "InconsistentFeedback"
  ELSE "success"

\* C7: applyTurn classifies its input in a fixed order: feedback outside
\* [0,243) gives InvalidResultsPattern (whatever the guess, and whatever the
\* low byte of the value); otherwise a guess outside the vocabulary gives
\* GuessNotInWordList; otherwise an empty filtered set gives
\* InconsistentFeedback; otherwise the turn succeeds.
C7_ClassificationOrder ==
  CalledApply =>
    /\ Classified = "InvalidResultsPattern" => last.result = Err("InvalidResultsPattern", <<>>)
    /\ Classified = "GuessNotInWordList" => last.result = Err("GuessNotInWordList", last.guess)
    /\ Classified = "InconsistentFeedback" => last.result = Err("InconsistentFeedback", <<>>)
    /\ Classified = "success" => last.result.ok

\* A feedback value out of range whose low byte is the code a candidate
\* guess would match was rejected as InvalidResultsPattern.
C7_Witness ==
  /\ CalledApply
  /\ last.feedback >= PATTERN_BUCKETS
  /\ last.guess \in SeqToSet(candidates(prev.solver))
  /\ \E w \in SeqToSet(candidates(prev.solver)) :
       simulate_results_code(last.guess, w) = U8(last.feedback)
  /\ last.result = Err("InvalidResultsPattern", <<>>)

\* C8: when session apply fails with a per-turn error, nothing is appended
\* to the log, the live engine's candidates and attempt counter are
\* unchanged, and the error is the engine's error for that call.
C8_FailedApplyChangesNothing ==
  ApplyFailed =>
    /\ turns = prev.turns
    /\ candidates(solver) = candidates(prev.solver)
    /\ attempt_number(solver) = attempt_number(prev.solver)
    /\ last.result.val \in
         {"InvalidResultsPattern", "GuessNotInWordList", "InconsistentFeedback"}
    /\ last.result = next_turn(core, prev.solver, last.guess, last.feedback).result

\* A guess outside the vocabulary was refused by a session with logged turns.
C8_Witness ==
  /\ ApplyFailed
  /\ last.result = Err("GuessNotInWordList", OutsideWord)
  /\ turns # <<>>

\* C9: an engine built from a loaded vocabulary never has an empty candidate
\* list, whatever applies and undos were called.
C9_CandidatesNonEmpty ==
  loaded.ok =>
    /\ candidates(solver) # <<>>
    /\ solver.candidate_indices # <<>>

\* A failed apply and an undo have both been survived with one candidate left.
C9_Witness ==
  /\ CalledUndo
  /\ last.result = Ok("true")
  /\ Len(candidates(solver)) = 1
  /\ turns # <<>>

\* C10: the live engine's candidates and attempt counter are those of the
\* logged turns replayed in order on a fresh engine over the full
\* vocabulary, and the log is exactly the successfully applied, not yet
\* undone turns in application order.
C10_LiveEqualsReplay ==
  loaded.ok =>
    LET replayed == replay_turns(core, FreshEngine, turns)
    IN  /\ replayed.ok
        /\ candidates(solver) = candidates(replayed.solver)
        /\ attempt_number(solver) = attempt_number(replayed.solver)
        /\ turns = [k \in 1..Len(history) |-> history[k].turn]

\* An undo has shortened a log of at least three turns, leaving a live
\* engine rebuilt by replay.
C10_Witness ==
  /\ CalledUndo
  /\ last.result = Ok("true")
  /\ Len(turns) >= 2
  /\ Len(prev.turns) = Len(turns) + 1

\* C11: undo() on an empty log reports failure and leaves the log, the
\* candidates and the attempt counter unchanged.
C11_UndoOnEmptyLog ==
  (CalledUndo /\ prev.turns = <<>>) =>
    /\ last.result = Err("false", <<>>)
    /\ turns = <<>>
    /\ candidates(solver) = candidates(prev.solver)
    /\ attempt_number(solver) = attempt_number(prev.solver)
    /\ solver = prev.solver

\* undo() was refused on an empty log.
C11_Witness ==
  /\ CalledUndo
  /\ prev.turns = <<>>
  /\ last.result = Err("false", <<>>)

\* C12: replay during undo cannot fail: whenever the log is not empty, the
\* replay of the log minus its last turn from the pristine engine succeeds,
\* undo() returns true, and no undo of a non-empty log has reported failure.
C12_ReplayCannotFail ==
  /\ (loaded.ok /\ turns # <<>>) =>
       /\ replay_turns(core, initial_solver, SubSeq(turns, 1, Len(turns) - 1)).ok
       /\ undo(core, initial_solver, Session).result = TRUE
  /\ (CalledUndo /\ prev.turns # <<>>) => last.result = Ok("true")

\* An undo replayed at least two logged turns and succeeded.
C12_Witness ==
  /\ CalledUndo
  /\ Len(prev.turns) >= 3
  /\ last.result = Ok("true")

\* C13: a successful applyTurn yields a subset of the candidates before the
\* call, a failed call leaves them equal, and only undo leaves a candidate
\* that was not there before the call.
C13_ShrinkOrRebuild ==
  LET before == SeqToSet(candidates(prev.solver))
      after  == SeqToSet(candidates(solver))
  IN  /\ ApplyOk => after \subseteq before
      /\ ApplyFailed => candidates(solver) = candidates(prev.solver)
      /\ ~(after \subseteq before) => (CalledUndo /\ last.result = Ok("true"))

\* A successful turn removed some candidates and kept more than one.
C13_Witness ==
  /\ ApplyOk
  /\ Len(candidates(solver)) > 1
  /\ Len(candidates(solver)) < Len(candidates(prev.solver))

\* C14: the turn log never holds more than 6 turns and the attempt counter
\* never exceeds 6.
C14_TurnsBounded ==
  loaded.ok => (Len(turns) <= 6 /\ solver.attempts <= 6)

CalledScored == loaded.ok /\ last.op = "scored_guesses"

\* C20: scoredGuesses() returns one (word, score) entry for each current
\* candidate and no entry for an eliminated vocabulary word.
C20_ScoresLiveCandidates ==
  CalledScored =>
    LET v == last.result.val
    IN  /\ Len(v) = Len(candidates(solver))
        /\ {v[k].word : k \in 1..Len(v)} = SeqToSet(candidates(solver))
        /\ \A j, k \in 1..Len(v) : v[j].word = v[k].word => j = k
        /\ \A w \in SeqToSet(core.words) \ SeqToSet(candidates(solver)) :
             \A k \in 1..Len(v) : v[k].word # w

\* Guesses were scored while some words were eliminated and several
\* candidates were left.
C20_Witness ==
  /\ CalledScored
  /\ Len(candidates(solver)) > 1
  /\ Len(candidates(solver)) < Len(core.words)
  /\ Len(last.result.val) = Len(candidates(solver))

\* C19: for every ordered pair of vocabulary ordinals (g, t) the matrix
\* entry at index g * N + t is oracle(word g, word t), the full code, held
\* in one byte; the matrix has exactly N * N entries.
C19_MatrixIsOracle ==
  loaded.ok =>
    LET N == Len(core.words)
    IN  /\ core.word_count = N
        /\ DOMAIN core.pattern_matrix = 0..(N * N - 1)
        /\ \A g, t \in 0..(N - 1) :
             /\ core.pattern_matrix[g * N + t]
                  = simulate_results_code(core.words[g + 1], core.words[t + 1])
             /\ core.pattern_matrix[g * N + t] \in 0..255

\* A matrix was built over four words, with an entry that differs from its
\* transposed entry.
C19_Witness ==
  /\ loaded.ok
  /\ core.word_count = 4
  /\ \E g, t \in 0..3 :
       core.pattern_matrix[g * 4 + t] # core.pattern_matrix[t * 4 + g]

OracleReturned == call.fn = "simulate_results_code" /\ call.done

ParseReturned == call.fn = "parse_results_code" /\ call.done

ToStringReturned == call.fn = "results_code_to_string" /\ call.done

\* Digit of a code at guess position k (1..5), position 1 least significant.
DigitAt(code, k) == (code \div (3 ^ (k - 1))) % 3

\* Number of positions of word w that hold byte b.
CountIn(w, b) == Cardinality({k \in 1..5 : w[k] = b})

Min(x, y) == IF x <= y THEN x ELSE y

Allee == parse_word5(FileDup[1]).val

Apple == parse_word5(FileDup[2]).val

\* C15: for every guess / target pair, position k is correct iff
\* guess[k] = target[k]; for each letter L the positions of the guess marked
\* correct or present number min(count of L in guess, count of L in
\* target); the present marks of L are on its leftmost non-correct
\* occurrences; oracle(allee, apple) = GYBBG.
C15_WordleSemantics ==
  OracleReturned =>
    LET g == call.arg[1]
        t == call.arg[2]
        mark(k) == DigitAt(call.out, k)
    IN  /\ \A k \in 1..5 : mark(k) = 2 <=> g[k] = t[k]
        /\ \A L \in {g[k] : k \in 1..5} \cup {t[k] : k \in 1..5} :
             Cardinality({k \in 1..5 : g[k] = L /\ mark(k) \in {1, 2}})
               = Min(CountIn(g, L), CountIn(t, L))
        /\ \A k \in 1..5 : mark(k) = 1 =>
             \A j \in 1..(k - 1) : (g[j] = g[k] /\ g[j] # t[j]) => mark(j) = 1
        /\ (g = Allee /\ t = Apple) =>
             Some(call.out) = parse_results_code(<<Chr.G, Chr.Y, Chr.B, Chr.B, Chr.G>>)

\* oracle(allee, apple) has returned GYBBG: the second l and the first e
\* are absent.
C15_Witness ==
  /\ OracleReturned
  /\ call.arg = <<Allee, Apple>>
  /\ results_code_to_string(call.out) = <<Chr.G, Chr.Y, Chr.B, Chr.B, Chr.G>>

\* C16: for every code c in [0, 243), parseCode(codeToText(c)) = c, and
\* for every 5-character text s over G, Y, B, parseCode accepts s and
\* codeToText(parseCode(s)) = s.
C16_RoundTrip ==
  /\ (ToStringReturned /\ call.arg \in 0..242) =>
       parse_results_code(call.out) = Some(call.arg)
  /\ (ParseReturned /\ call.arg \in [1..5 -> CodeChars]) =>
       /\ call.out.some
       /\ results_code_to_string(call.out.val) = call.arg

\* GYBBG was parsed to a code that is not its own mirror image.
C16_Witness ==
  /\ ParseReturned
  /\ call.arg = <<Chr.G, Chr.Y, Chr.B, Chr.B, Chr.G>>
  /\ call.out = Some(167)

\* C17: parseCode accepts a text iff it has exactly 5 characters, each one
\* of G, Y, B; any other text is rejected and yields no code.
C17_ParseAcceptsExactly ==
  ParseReturned =>
    /\ call.out.some <=>
         (Len(call.arg) = 5 /\ \A k \in 1..Len(call.arg) : call.arg[k] \in CodeChars)
    /\ ~call.out.some => call.out = None

\* A text of 6 characters, five G after a blank, was rejected.
C17_Witness ==
  /\ ParseReturned
  /\ call.arg = <<Chr.sp, Chr.G, Chr.G, Chr.G, Chr.G, Chr.G>>
  /\ call.out = None

\* Weighted sum of five digits, digit k with weight 3^(k-1).
WeightedSum(d) == d[1] + 3 * d[2] + 9 * d[3] + 27 * d[4] + 81 * d[5]

\* C18: every oracle result lies in [0, 243) and is the sum of
\* digit_i * 3^i over the positions, 0 = absent, 1 = present, 2 = correct,
\* position 0 least significant; parseCode gives B = 0, Y = 1, G = 2 the
\* same positions and weights, so a parsed text and an oracle result are the
\* same code iff they agree position by position.
C18_Base3Encoding ==
  /\ OracleReturned =>
       LET marks == OracleState(call.arg[1], call.arg[2])
           text  == [k \in 1..5 |-> IF marks[k] = 0 THEN Chr.B
                                    ELSE IF marks[k] = 1 THEN Chr.Y ELSE Chr.G]
       IN  /\ call.out \in 0..242
           /\ \A k \in 1..5 : marks[k] \in {0, 1, 2} /\ DigitAt(call.out, k) = marks[k]
           /\ call.out = WeightedSum(marks)
           /\ parse_results_code(text) = Some(call.out)
  /\ (ParseReturned /\ call.out.some) =>
       LET digits == [k \in 1..5 |-> IF call.arg[k] = Chr.B THEN 0
                                     ELSE IF call.arg[k] = Chr.Y THEN 1 ELSE 2]
       IN  /\ call.out.val \in 0..242
           /\ call.out.val = WeightedSum(digits)
           /\ \A k \in 1..5 : DigitAt(call.out.val, k) = digits[k]

\* An oracle result with three different marks whose code is not a
\* palindrome of digits has been returned.
C18_Witness ==
  /\ OracleReturned
  /\ {DigitAt(call.out, k) : k \in 1..5} = {0, 1, 2}
  /\ DigitAt(call.out, 1) # DigitAt(call.out, 5)

\* Ordinal of a vocabulary word.
OrdinalOf(w) == core.word_to_index[w]

\* C21: scoredGuesses() is deterministic: on a fixed vocabulary and
\* candidate set every call returns the same sequence, whatever order the
\* scoring workers finish in; the sequence is ordered by descending score,
\* equal scores by ascending lexicographic word.
C21_ScoredDeterministic ==
  CalledScored =>
    LET v == last.result.val
    IN  /\ \A order \in FinishOrders(Len(solver.candidate_indices)) :
             scored_guesses(core, solver, order) = v
        /\ \A k \in 1..(Len(v) - 1) :
             \/ v[k].score.key < v[k + 1].score.key
             \/ /\ v[k].score = v[k + 1].score
                /\ WordLess(v[k].word, v[k + 1].word)

\* Guesses were scored with two candidates of equal score returned in the
\* reverse of their candidate order, ahead of a candidate of lower score.
C21_Witness ==
  /\ CalledScored
  /\ \E j, k \in 1..Len(last.result.val) :
       /\ j < k
       /\ last.result.val[j].score = last.result.val[k].score
       /\ OrdinalOf(last.result.val[j].word) > OrdinalOf(last.result.val[k].word)
  /\ \E k \in 1..(Len(last.result.val) - 1) :
       last.result.val[k].score.key < last.result.val[k + 1].score.key

EntropyReturned == call.fn = "calculate_entropy_row" /\ call.done

\* Sum of the values of f over the set S.
RECURSIVE SumOver(_, _)
SumOver(f, S) ==
  IF S = {} THEN 0
  ELSE LET x == CHOOSE y \in S : TRUE IN f[x] + SumOver(f, S \ {x})

\* Product of size[k], size[k + 1], .., size[n].
RECURSIVE ProductFrom(_, _, _)
ProductFrom(size, k, n) == IF k > n THEN 1 ELSE size[k] * ProductFrom(size, k + 1, n)

EliminatedGuess ==
  /\ CalledApply
  /\ last.feedback < PATTERN_BUCKETS
  /\ last.guess \in SeqToSet(core.words)
  /\ last.guess \notin SeqToSet(candidates(prev.solver))

\* C23: guess membership is checked against the full vocabulary: a guess
\* of the vocabulary that was already eliminated is never refused as
\* GuessNotInWordList, and its feedback filters the candidates as for any
\* guess (success with exactly the matching candidates, or
\* InconsistentFeedback when there is none); on {arise, raise, serai, irate}
\* after raise / YYGGG, serai with oracle(serai, arise) leaves [arise],
\* Ongoing.
C23_MembershipInVocabulary ==
  /\ EliminatedGuess =>
       /\ last.result.ok <=> OracleMatches # {}
       /\ last.result.ok => SeqToSet(candidates(solver)) = OracleMatches
       /\ ~last.result.ok => last.result = Err("InconsistentFeedback", <<>>)
       /\ ( /\ core.words = TestVocabulary
            /\ prev.turns = <<Turn(TestVocabulary[2], 238)>>
            /\ last.guess = TestVocabulary[3]
            /\ last.feedback = simulate_results_pattern(TestVocabulary[3], TestVocabulary[1]) )
          => /\ last.result = Ok("Ongoing")
             /\ candidates(solver) = <<TestVocabulary[1]>>
  /\ CalledApply =>
       (last.result.val = "GuessNotInWordList"
          <=> (last.feedback < PATTERN_BUCKETS /\ last.guess \notin SeqToSet(core.words)))

\* After raise / YYGGG on the test vocabulary the eliminated word serai was
\* accepted as a guess and left [arise].
C23_Witness ==
  /\ EliminatedGuess
  /\ core.words = TestVocabulary
  /\ prev.turns = <<Turn(TestVocabulary[2], 238)>>
  /\ last.guess = TestVocabulary[3]
  /\ last.result = Ok("Ongoing")
  /\ candidates(solver) = <<TestVocabulary[1]>>

LoadReturned == call.fn = "load_word_list" /\ call.done

ParseWordReturned == call.fn = "parse_word5" /\ call.done

IsLetter(b) == (b >= 65 /\ b <= 90) \/ (b >= 97 /\ b <= 122)

ToLower(b) == IF b >= 65 /\ b <= 90 THEN b + 32 ELSE b

\* The text from its first to its last character that is no whitespace.
Trimmed(text) ==
  LET inner == {k \in 1..Len(text) : text[k] \notin {9, 10, 11, 12, 13, 32}}
  IN  IF inner = {} THEN <<>>
      ELSE SubSeq(text, CHOOSE k \in inner : \A j \in inner : k <= j,
                        CHOOSE k \in inner : \A j \in inner : k >= j)

\* The text is, after trimming, exactly 5 ASCII letters.
ValidWordText(text) ==
  Len(Trimmed(text)) = 5 /\ \A k \in 1..5 : IsLetter(Trimmed(text)[k])

\* The trimmed text in lowercase.
Normalized(text) == [k \in 1..Len(Trimmed(text)) |-> ToLower(Trimmed(text)[k])]

\* C24: vocabulary load drops duplicate words case-insensitively and keeps
\* the order: the loaded vocabulary is the sequence of the first
\* occurrences of each distinct lowercase-normalized word, in file order,
\* and no word appears twice.
C24_DedupPreservesOrder ==
  (LoadReturned /\ call.out.ok) =>
    LET file   == call.arg
        firsts == {k \in 1..Len(file) :
                     \A j \in 1..(k - 1) : Normalized(file[j]) # Normalized(file[k])}
        pos    == Ascending(firsts)
    IN  /\ call.out.words = [i \in 1..Len(pos) |-> Normalized(file[pos[i]])]
        /\ \A i, j \in 1..Len(call.out.words) :
             call.out.words[i] = call.out.words[j] => i = j

\* A file of three lines whose last line repeats the first in another case
\* was loaded as two words, the first line's word first.
C24_Witness ==
  /\ LoadReturned
  /\ call.out.ok
  /\ Len(call.arg) = 3
  /\ call.arg[1] # call.arg[3]
  /\ Normalized(call.arg[1]) = Normalized(call.arg[3])
  /\ call.out.words = <<Normalized(call.arg[1]), Normalized(call.arg[2])>>

\* C25: vocabulary load fails with an error citing the 1-based number of
\* the first line that is no valid Word after trimming, and returns no
\* vocabulary, whatever valid lines precede or follow it.
C25_FirstInvalidLine ==
  LoadReturned =>
    LET file == call.arg
        bad  == {k \in 1..Len(file) : ~ValidWordText(file[k])}
    IN  /\ bad # {} =>
             /\ ~call.out.ok
             /\ call.out.line = CHOOSE k \in bad : \A j \in bad : k <= j
             /\ call.out.words = <<>>
        /\ bad = {} => call.out.line = 0

\* A file with a valid line, then two invalid lines, failed citing line 2.
C25_Witness ==
  /\ LoadReturned
  /\ Len(call.arg) = 3
  /\ ValidWordText(call.arg[1])
  /\ ~ValidWordText(call.arg[2])
  /\ ~ValidWordText(call.arg[3])
  /\ call.out = [ok |-> FALSE, line |-> 2, words |-> <<>>]

\* C27: the word codec accepts a text iff, trimmed, it is exactly 5 ASCII
\* letters; an accepted Word is 5 bytes in a..z, the letters of the text in
\* lowercase; rendering the Word and parsing it again yields the same Word.
C27_WordCodec ==
  ParseWordReturned =>
    /\ call.out.some <=> ValidWordText(call.arg)
    /\ ~call.out.some => call.out = None
    /\ call.out.some =>
         /\ DOMAIN call.out.val = 1..5
         /\ \A k \in 1..5 : call.out.val[k] \in 97..122
         /\ call.out.val = Normalized(call.arg)
         /\ word_fmt(call.out.val) = Some(call.out.val)
         /\ parse_word5(word_fmt(call.out.val).val) = call.out

\* An uppercase word between tabs and a blank was parsed to lowercase.
C27_Witness ==
  /\ ParseWordReturned
  /\ call.arg = <<Chr.tab>> \o FileDup[3] \o <<Chr.tab>>
  /\ call.out = Some(Apple)

\* C26: a vocabulary file that yields no words after validation is a load
\* error, so the path-based constructor never builds an engine or a
\* session over an empty vocabulary: a constructed session has a non-empty
\* vocabulary, and after a load error no operation of a session ever runs.
C26_NoEmptyVocabulary ==
  /\ load_word_list(FileEmpty) = [ok |-> FALSE, line |-> 0, words |-> <<>>]
  /\ loaded.ok =>
       /\ loaded.words # <<>>
       /\ core.words = loaded.words
       /\ core.word_count > 0
       /\ candidates(initial_solver) # <<>>
  /\ ~loaded.ok => (last = NoCall /\ turns = <<>> /\ history = <<>>)

\* The file without lines was refused as empty and nothing was constructed.
C26_Witness ==
  /\ loaded = [ok |-> FALSE, line |-> 0, words |-> <<>>]
  /\ last = NoCall

\* C28: the shared core is never mutated after construction: whatever
\* applyTurn, scoredGuesses and undo (with its replay on a clone of the
\* pristine engine) were called, the vocabulary, the word-to-ordinal lookup
\* and the pattern matrix are those built from the loaded words; the
\* pristine engine the live engine was cloned from keeps the full candidate
\* list and attempt counter 0; scoredGuesses leaves the live engine as it
\* was.
C28_CoreImmutable ==
  loaded.ok =>
    /\ core = SolverCore(loaded.words)
    /\ core.words = loaded.words
    /\ core.word_to_index = BuildWordToIndex(loaded.words)
    /\ core.pattern_matrix = build_pattern_matrix(loaded.words)
    /\ initial_solver = from_word_list(loaded.words)
    /\ candidates(initial_solver) = loaded.words
    /\ attempt_number(initial_solver) = 1
    /\ CalledScored => (solver = prev.solver /\ turns = prev.turns)

\* An undo has replayed logged turns on a clone of the pristine engine and
\* left a live engine with fewer candidates and a higher attempt counter
\* than the pristine one.
C28_Witness ==
  /\ CalledUndo
  /\ last.result = Ok("true")
  /\ turns # <<>>
  /\ Len(candidates(solver)) < Len(candidates(initial_solver))
  /\ solver.attempts > initial_solver.attempts
  /\ initial_solver = FreshEngine

Building == call.fn = "build_pattern_matrix"

\* C29: during matrix construction each worker writes only the N cells of
\* its own guess row, no cell is ever written twice or by two workers, when
\* the workers have finished every cell has been written exactly once, and
\* the matrix returned is the same under every interleaving: the table of
\* the oracle over the vocabulary.
C29_DisjointRowWrites ==
  Building =>
    LET words == call.arg
        n     == Len(words)
        b     == call.out
    IN  /\ \A cell \in 0..(n * n - 1) :
             /\ Len(b.writes[cell]) <= 1
             /\ \A k \in 1..Len(b.writes[cell]) : b.writes[cell][k] = cell \div n
             /\ b.writes[cell] # <<>> =>
                  b.matrix[cell] = simulate_results_code(words[(cell \div n) + 1],
                                                         words[(cell % n) + 1])
        /\ \A guess_idx \in 0..(n - 1) :
             Cardinality({cell \in 0..(n * n - 1) :
                            \E k \in 1..Len(b.writes[cell]) :
                              b.writes[cell][k] = guess_idx}) = b.next[guess_idx]
        /\ call.done =>
             /\ \A cell \in 0..(n * n - 1) : Len(b.writes[cell]) = 1
             /\ DOMAIN b.matrix = 0..(n * n - 1)
             /\ b.matrix = build_pattern_matrix(words)

\* Over the test vocabulary two workers were in the middle of their rows
\* at the same time, a later row ahead of an earlier one.
C29_Witness ==
  /\ Building
  /\ call.arg = TestVocabulary
  /\ \E g, h \in DOMAIN call.out.next :
       /\ g < h
       /\ call.out.next[g] = 1
       /\ call.out.next[h] = 3

\* The engines of the session: the live one, the pristine one and the ones
\* left by the logged turns.
Engines == {solver, initial_solver} \cup {history[k].solver : k \in 1..Len(history)}

\* C30: candidate ordinals are always valid matrix indices: in every
\* reachable engine state each candidate ordinal is below N, so for every
\* guess ordinal of the lookup the index guess * N + target read by
\* filtering or scoring lies in [0, N * N), and the code read there is
\* below 243.
C30_OrdinalsInRange ==
  loaded.ok =>
    LET N == core.word_count
    IN  /\ N = Len(core.words)
        /\ \A w \in DOMAIN core.word_to_index : core.word_to_index[w] \in 0..(N - 1)
        /\ \A e \in Engines :
             \A k \in 1..Len(e.candidate_indices) :
               LET target_idx == e.candidate_indices[k]
               IN  /\ target_idx \in 0..(N - 1)
                   /\ \A guess_idx \in 0..(N - 1) :
                        /\ guess_idx * N + target_idx \in 0..(N * N - 1)
                        /\ guess_idx * N + target_idx \in DOMAIN core.pattern_matrix
                        /\ core.pattern_matrix[guess_idx * N + target_idx]
                             \in 0..(PATTERN_BUCKETS - 1)

\* A turn with the last word of four as the guess has read the last cell
\* of the matrix and left that word's ordinal as the only candidate.
C30_Witness ==
  /\ ApplyOk
  /\ core.word_count = 4
  /\ OrdinalOf(last.guess) = 3
  /\ solver.candidate_indices = <<3>>

\* C31: in every reachable session state the attempt counter of the live
\* engine equals the length of the turn log (attempt_number() is the log
\* length + 1): a successful apply increases both by one, a successful undo
\* decreases both by one, a failed apply or undo changes neither.
C31_AttemptsEqualLogLength ==
  loaded.ok =>
    /\ solver.attempts = Len(turns)
    /\ attempt_number(solver) = Len(turns) + 1
    /\ ApplyOk =>
         /\ solver.attempts = prev.solver.attempts + 1
         /\ Len(turns) = Len(prev.turns) + 1
    /\ (CalledUndo /\ last.result.ok) =>
         /\ solver.attempts = prev.solver.attempts - 1
         /\ Len(turns) = Len(prev.turns) - 1
    /\ (ApplyFailed \/ (CalledUndo /\ ~last.result.ok)) =>
         /\ solver.attempts = prev.solver.attempts
         /\ turns = prev.turns

\* An undo took the log from three turns to two and the attempt counter
\* with it.
C31_Witness ==
  /\ CalledUndo
  /\ last.result.ok
  /\ Len(prev.turns) = 3
  /\ Len(turns) = 2
  /\ solver.attempts = 2

\* The turns with a feedback in range and a guess of the vocabulary.
ValidTurns ==
  {Turn(g, f) : g \in SeqToSet(core.words),
                f \in {x \in FeedbackInputs(core) : x < PATTERN_BUCKETS}}

\* next_turn with turn ta, then, if it succeeded, with turn tb.
ApplyBoth(s, ta, tb) ==
  LET r1 == next_turn(core, s, ta.guess, ta.feedback)
  IN  IF ~r1.result.ok THEN [ok |-> FALSE, solver |-> r1.solver]
      ELSE LET r2 == next_turn(core, r1.solver, tb.guess, tb.feedback)
           IN  [ok |-> r2.result.ok, solver |-> r2.solver]

\* Turn T2 after the last call's turn, from the engine before the last call.
LastThen(t2) == ApplyBoth(prev.solver, Turn(last.guess, last.feedback), t2)

\* Turn T2 before the last call's turn, from the engine before the last call.
LastAfter(t2) == ApplyBoth(prev.solver, t2, Turn(last.guess, last.feedback))

\* C32: filtering is order-independent: from any engine state, for the
\* turn T1 of the last call and any turn T2, both with a feedback in range
\* and a guess of the vocabulary, T1 then T2 succeeds iff T2 then T1
\* succeeds, and when they succeed both orders leave the same candidates
\* and the same attempt counter.
C32_FilteringCommutes ==
  (CalledApply /\ Turn(last.guess, last.feedback) \in ValidTurns) =>
    \A t2 \in ValidTurns :
      /\ LastThen(t2).ok <=> LastAfter(t2).ok
      /\ LastThen(t2).ok =>
           /\ candidates(LastThen(t2).solver) = candidates(LastAfter(t2).solver)
           /\ LastThen(t2).solver.candidate_indices
                = LastAfter(t2).solver.candidate_indices
           /\ attempt_number(LastThen(t2).solver) = attempt_number(LastAfter(t2).solver)

\* A turn was applied that kept several candidates; with a second turn both
\* orders succeed, pass through different candidate lists and end with
\* fewer candidates than the first turn alone; with a third turn, which
\* succeeds alone, both orders fail.
C32_Witness ==
  /\ ApplyOk
  /\ \E t2 \in ValidTurns :
       LET only2 == next_turn(core, prev.solver, t2.guess, t2.feedback)
       IN  /\ LastThen(t2).ok
           /\ LastAfter(t2).ok
           /\ only2.result.ok
           /\ candidates(only2.solver) # candidates(solver)
           /\ Len(candidates(LastThen(t2).solver)) < Len(candidates(solver))
  /\ \E t3 \in ValidTurns :
       /\ next_turn(core, prev.solver, t3.guess, t3.feedback).result.ok
       /\ ~LastThen(t3).ok
       /\ ~LastAfter(t3).ok

CalledAllGreen == CalledApply /\ last.feedback = ALL_GREEN_CODE

\* The guess of the last call was a candidate before the call.
GuessWasCandidate == last.guess \in SeqToSet(candidates(prev.solver))

\* C33 as stated: on a deduplicated vocabulary, applyTurn with the
\* all-correct feedback succeeds iff the guess is a current candidate,
\* otherwise it reports InconsistentFeedback, and after it succeeds the
\* candidate set is exactly {guess}.
C33_AllGreenIffCandidate ==
  CalledAllGreen =>
    /\ last.result.ok <=> GuessWasCandidate
    /\ ~GuessWasCandidate => last.result = Err("InconsistentFeedback", <<>>)
    /\ last.result.ok => candidates(solver) = <<last.guess>>

\* C33 amended: on a deduplicated vocabulary, applyTurn with the
\* all-correct feedback succeeds iff the guess is a current candidate;
\* otherwise it reports InconsistentFeedback when the guess is a word of
\* the vocabulary and GuessNotInWordList when it is not; after it succeeds
\* the candidate set is exactly {guess}.
C33_AllGreenAmended ==
  CalledAllGreen =>
    /\ \A j, k \in 1..Len(core.words) : core.words[j] = core.words[k] => j = k
    /\ last.result.ok <=> GuessWasCandidate
    /\ (~GuessWasCandidate /\ last.guess \in SeqToSet(core.words)) =>
         last.result = Err("InconsistentFeedback", <<>>)
    /\ last.guess \notin SeqToSet(core.words) =>
         last.result = Err("GuessNotInWordList", last.guess)
    /\ last.result.ok =>
         /\ candidates(solver) = <<last.guess>>
         /\ solver.candidate_indices = <<OrdinalOf(last.guess)>>

\* The all-correct feedback was given for a vocabulary word that an
\* earlier turn had eliminated, with several candidates left, and was
\* refused as inconsistent.
C33_Witness ==
  /\ CalledAllGreen
  /\ last.guess \in SeqToSet(core.words)
  /\ ~GuessWasCandidate
  /\ Len(candidates(prev.solver)) > 1
  /\ last.result = Err("InconsistentFeedback", <<>>)

InGame == call.fn = "game" /\ loaded.ok

\* C34: in game mode, where the secret is a word of the vocabulary and
\* every feedback is oracle(guess, secret) for a guess of the vocabulary,
\* the secret is a candidate after any sequence of accepted guesses and
\* undos, and session apply never returns an error.
C34_SecretStaysCandidate ==
  InGame =>
    /\ call.out.secret \in SeqToSet(core.words)
    /\ call.out.secret \in SeqToSet(candidates(solver))
    /\ last.op = "apply_turn" =>
         /\ last.result.ok
         /\ last.feedback = simulate_results_code(last.guess, call.out.secret)
         /\ last.guess \in SeqToSet(core.words)
    /\ \A k \in 1..Len(turns) :
         turns[k].feedback = simulate_results_code(turns[k].guess, call.out.secret)

\* After accepted guesses that eliminated words, an undo left a log that
\* still holds a turn, and the secret is one of several candidates.
C34_Witness ==
  /\ InGame
  /\ last.op = "undo"
  /\ last.result.ok
  /\ turns # <<>>
  /\ Len(candidates(solver)) > 1
  /\ Len(candidates(solver)) < Len(core.words)
  /\ call.out.secret \in SeqToSet(candidates(solver))

InSolver == call.fn = "solver" /\ loaded.ok

\* The words of the top tie set of engine s.
TopTies(c, s) ==
  LET scored == scored_guesses(c, s, [k \in 1..Len(s.candidate_indices) |-> k])
      ties == tie_set(scored)
  IN  {ties[k].word : k \in 1..Len(ties)}

\* C35: in solver mode the guess handed to apply_turn is a current
\* candidate, the top suggestion or a member of the top tie set, and the
\* feedback is a code returned by parse_results_code; the only error
\* apply_turn returns there is InconsistentFeedback, and the branch
\* "No candidates remain" of an empty scored list is never taken.
C35_SolverGuessIsCandidate ==
  InSolver =>
    /\ call.out.pc # "no_candidates"
    /\ call.out.pc \in {"choice", "feedback"} => call.out.scored # <<>>
    /\ call.out.pc = "feedback" =>
         /\ call.out.guess \in SeqToSet(candidates(solver))
         /\ call.out.guess \in TopTies(core, solver)
    /\ last.op = "apply_turn" =>
         /\ last.guess \in SeqToSet(candidates(prev.solver))
         /\ last.guess \in TopTies(core, prev.solver)
         /\ parse_results_code(results_code_to_string(last.feedback))
              = Some(last.feedback)
         /\ last.result.ok \/ last.result = Err("InconsistentFeedback", <<>>)

\* A tied guess other than the first of the list was picked, and the
\* feedback entered for it was refused as inconsistent.
C35_Witness ==
  /\ InSolver
  /\ last.op = "apply_turn"
  /\ last.result = Err("InconsistentFeedback", <<>>)
  /\ Cardinality(TopTies(core, prev.solver)) > 1
  /\ last.guess # scored_guesses(core, prev.solver,
                    [k \in 1..Len(prev.solver.candidate_indices) |-> k])[1].word

\* C36: in every engine candidate_indices is strictly ascending
\* (vocabulary order, no duplicates) and candidate_words[i] is the
\* vocabulary word at ordinal candidate_indices[i] for every i.
C36_CandidateListsAligned ==
  loaded.ok =>
    \A e \in Engines :
      /\ \A i, j \in 1..Len(e.candidate_indices) :
           i < j => e.candidate_indices[i] < e.candidate_indices[j]
      /\ Len(e.candidate_words) = Len(e.candidate_indices)
      /\ \A i \in 1..Len(e.candidate_indices) :
           /\ e.candidate_indices[i] + 1 \in DOMAIN core.words
           /\ e.candidate_words[i] = core.words[e.candidate_indices[i] + 1]

\* A turn has kept several candidates and dropped others.
C36_Witness ==
  /\ ApplyOk
  /\ Len(solver.candidate_indices) >= 2
  /\ Len(solver.candidate_indices) < Len(prev.solver.candidate_indices)

SimulateReturned == call.fn = "simulate_results_code" /\ call.done

\* The counts and marks after the count loop, after pass 1 and after pass 2
\* of simulate_results_code(g, t).
CountsOfTarget(t) == CountLetters(t, 1, [c \in 0..25 |-> 0])

AfterGreens(g, t) ==
  PassGreens(g, t, 1, [counts |-> CountsOfTarget(t), state |-> [k \in 1..5 |-> 0]])

AfterYellows(g, t) == PassYellows(g, 1, AfterGreens(g, t))

\* C37: the oracle's per-letter remaining-count array never underflows:
\* for every guess/target pair each decrement of pass 1 (greens) and of
\* pass 2 (yellows) is applied to a count of at least 1, and the assertion
\* of li holds for the bytes of every Word produced by the codec.  A count
\* is only counted down after the first loop, so every decrement met a
\* count of at least 1 iff each letter's count after a pass is, as an
\* integer, its count before the pass minus the decrements of the pass.
C37_CountsNeverUnderflow ==
  /\ SimulateReturned =>
       LET g == call.arg[1]
           t == call.arg[2]
           st1 == AfterGreens(g, t)
           st2 == AfterYellows(g, t)
       IN  /\ \A k \in 1..5 : li_assertion(g[k]) /\ li_assertion(t[k])
           /\ \A k \in 1..5 : li(g[k]) \in 0..25 /\ li(t[k]) \in 0..25
           /\ \A c \in 0..25 :
                /\ CountsOfTarget(t)[c] = Cardinality({k \in 1..5 : li(t[k]) = c})
                /\ st1.counts[c] = CountsOfTarget(t)[c]
                     - Cardinality({k \in 1..5 : g[k] = t[k] /\ li(g[k]) = c})
                /\ st2.counts[c] = st1.counts[c]
                     - Cardinality({k \in 1..5 : st2.state[k] = 1 /\ li(g[k]) = c})
           /\ \A k \in 1..5 : st2.state[k] = 2 <=> g[k] = t[k]
           /\ call.out = PackBase3(st2.state, 1, 0, 1)
  /\ ParseWordReturned /\ call.out.some =>
       \A k \in 1..5 : li_assertion(call.out.val[k]) /\ li(call.out.val[k]) \in 0..25

\* The guess holds one letter three times and the target holds it twice:
\* one copy is counted off by a green, one by a yellow, and the third
\* finds the count at 0 and is left black.
C37_Witness ==
  /\ SimulateReturned
  /\ LET g == call.arg[1]
         t == call.arg[2]
         st == AfterYellows(g, t)
     IN  \E i, j, k \in 1..5 :
           /\ g[i] = g[j] /\ g[j] = g[k]
           /\ st.state[i] = 2 /\ st.state[j] = 1 /\ st.state[k] = 0
           /\ st.counts[li(g[i])] = 0
           /\ Cardinality({p \in 1..5 : t[p] = g[i]}) = 2

====
